---- MODULE Spec2Model ----
(***************************************************************************)
(* A model of the vector database of src/vectordatabase: the two record    *)
(* stores (Storage, ImageStorage), the similarity engine (Index), and the  *)
(* two facades (VectorDB, MultimodalDB).                                   *)
(*                                                                         *)
(* Python lists and dicts are objects: load() hands out the cached list    *)
(* itself, add() appends to it in place, a metadata dict passed to several *)
(* records is one dict.  The model therefore keeps a heap: list_heap,      *)
(* rec_heap and meta_heap map object identities to contents, and fields    *)
(* hold identities (0 is None).  The durable file holds values.            *)
(*                                                                         *)
(* A process works with one facade on one storage location; db says which. *)
(* The two facades share no state, so the reachable states of the program  *)
(* are those of the one or of the other.                                   *)
(***************************************************************************)
EXTENDS Integers, Sequences, FiniteSets, TLC

VARIABLES
    db,             \* "VectorDB" or "MultimodalDB": the facade this process uses
    rec_heap,       \* record dict identity -> record (its "metadata" is a dict identity or None)
    meta_heap,      \* metadata dict identity -> dict, a set of <<key, value>> pairs
    list_heap,      \* list identity -> sequence of record identities
    cache,          \* Storage._cache / ImageStorage._cache: a list identity or None
    cache_loaded,   \* Storage._cache_loaded / ImageStorage._cache_loaded
    file,           \* the durable JSON file: a sequence of record values
    file_text,      \* how much of the encoding of file is on disk: "complete", or
                    \* "partial" or "empty" after a write that did not finish
    vectors_cache,  \* Index._vectors_cache / MultimodalDB._vectors_cache: <<>> is None, <<l>> a list
    data_cache,     \* Index._data_cache / MultimodalDB._data_cache: a list identity or None
    peer,           \* the other process working on the storage location, if any
    last            \* the last call made by the caller and what it observed

vars == <<db, rec_heap, meta_heap, list_heap, cache, cache_loaded, file, file_text,
          vectors_cache, data_cache, peer, last>>

(***************************************************************************)
(* Bounds of the model.                                                    *)
(***************************************************************************)
MaxRecords == 3
MaxTopK == 2

None == 0

(***************************************************************************)
(* Objects: identities, dicts, option values.                              *)
(***************************************************************************)
Fresh(dom) ==
    CHOOSE n \in 1..(Cardinality(dom) + 1) :
        n \notin dom /\ \A m \in 1..(n - 1) : m \in dom

Put(h, k, v) == [x \in (DOMAIN h) \cup {k} |-> IF x = k THEN v ELSE h[x]]

\* F applied to the value v: names an intermediate result
With(v, F(_)) == F(v)

DictKeys(d) == {p[1] : p \in d}

\* dict.update(patch): keys of patch overwrite, other keys stay
DictUpdate(d, patch) == {p \in d : p[1] \notin DictKeys(patch)} \cup patch

MinOf(set) == CHOOSE n \in set : \A m \in set : n <= m

Range(seq) == {seq[i] : i \in 1..Len(seq)}

(***************************************************************************)
(* Paths.  A path string is the sequence of its components; an absolute    *)
(* path starts with "/".  The process runs in Cwd.                         *)
(***************************************************************************)
Cwd == <<"/", "w">>

IsAbs(p) == Len(p) > 0 /\ p[1] = "/"

abspath(p) == IF IsAbs(p) THEN p ELSE Cwd \o p

basename(p) == p[Len(p)]

IsUnderCwd(p) == Len(p) >= Len(Cwd) /\ SubSeq(p, 1, Len(Cwd)) = Cwd

\* Path(image_path).relative_to(Path.cwd()), falling back to image_path on ValueError
relative_path(p) == IF IsUnderCwd(p) THEN SubSeq(p, Len(Cwd) + 1, Len(p)) ELSE p

(***************************************************************************)
(* Cosine similarity.  Scores are multiples of 1/Scale held as integers.   *)
(* The embeddings of the model have integer norms, so the quotient is      *)
(* exact.                                                                  *)
(***************************************************************************)
Scale == 12 * 100

Pct(n) == n * (Scale \div 100)

RECURSIVE SumTo(_, _)
SumTo(f, n) == IF n = 0 THEN 0 ELSE f[n] + SumTo(f, n - 1)

ZipLen(v1, v2) == IF Len(v1) < Len(v2) THEN Len(v1) ELSE Len(v2)

Dot(v1, v2) == SumTo([i \in 1..ZipLen(v1, v2) |-> v1[i] * v2[i]], ZipLen(v1, v2))

SumSq(v) == SumTo([i \in 1..Len(v) |-> v[i] * v[i]], Len(v))

Sqrt(n) == CHOOSE r \in 0..n : r * r = n

cosine_similarity_wrong_norm(v1, v2) ==
    (Dot(v1, v2) * Scale) \div (Sqrt(SumSq(v1)) * Sqrt(SumSq(v1)))

cosine_similarity(v1, v2) ==
    (Dot(v1, v2) * Scale) \div (Sqrt(SumSq(v1)) * Sqrt(SumSq(v2)))

\* the cosine of multimodal_db.py, on numpy arrays: for vectors of one length
\* (np.dot accepts no others) and of non-zero norm
np_cosine_similarity(v1, v2) ==
    (Dot(v1, v2) * Scale) \div (Sqrt(SumSq(v1)) * Sqrt(SumSq(v2)))

(***************************************************************************)
(* The object state handled by the operators below, and the value of a     *)
(* collection.                                                             *)
(***************************************************************************)
Cur == [rec_heap |-> rec_heap, meta_heap |-> meta_heap, list_heap |-> list_heap,
        cache |-> cache, cache_loaded |-> cache_loaded, file |-> file,
        file_text |-> file_text, vectors_cache |-> vectors_cache,
        data_cache |-> data_cache, peer |-> peer, saves |-> 0,
        fault |-> "none", exc |-> "none"]

\* the JSON object written for a record: its metadata inline, or no such key
RecVal(S, rid) ==
    LET r == S.rec_heap[rid]
    IN  [r EXCEPT !.metadata = IF r.metadata = None THEN <<>>
                               ELSE <<S.meta_heap[r.metadata]>>]

json_dump(S, data) ==
    [i \in 1..Len(S.list_heap[data]) |-> RecVal(S, S.list_heap[data][i])]

\* one object of the file: a new record dict, and a new metadata dict if it has one
json_load_item(S, v) ==
    IF v.metadata = <<>>
    THEN With(Fresh(DOMAIN S.rec_heap), LAMBDA rid :
            [s |-> [S EXCEPT !.rec_heap = Put(@, rid, [v EXCEPT !.metadata = None])],
             ret |-> rid])
    ELSE With(Fresh(DOMAIN S.meta_heap), LAMBDA mid :
         With(Fresh(DOMAIN S.rec_heap), LAMBDA rid :
            [s |-> [S EXCEPT !.meta_heap = Put(@, mid, v.metadata[1]),
                             !.rec_heap = Put(@, rid, [v EXCEPT !.metadata = mid])],
             ret |-> rid]))

RECURSIVE json_load_items(_, _, _, _)
json_load_items(S, vals, i, acc) ==
    IF i > Len(vals) THEN [s |-> S, ret |-> acc]
    ELSE With(json_load_item(S, vals[i]), LAMBDA p :
            json_load_items(p.s, vals, i + 1, Append(acc, p.ret)))

\* json.load: every object of the file becomes a new dict, the whole a new list
json_load(S, vals) ==
    With(json_load_items(S, vals, 1, <<>>), LAMBDA p :
    With(Fresh(DOMAIN p.s.list_heap), LAMBDA lid :
        [s |-> [p.s EXCEPT !.list_heap = Put(@, lid, p.ret)], ret |-> lid]))


\* S.fault is what the environment does to the write of this call: "none", or
\* "open" (open() fails and the file is not touched), or the write stops
\* after open() has truncated the file, "empty" with nothing written and
\* "partial" with a proper prefix of the encoding written.  S.exc is the
\* exception the call ends with.
WriteFaults == {"open", "empty", "partial"}

\* what file stands for after an unfinished write of data
Written(S, data) == IF S.fault = "empty" THEN <<>> ELSE json_dump(S, data)

(***************************************************************************)
(* ImageStorage                                                            *)
(***************************************************************************)
ImageStorage_load(S) ==
    IF S.cache_loaded THEN [s |-> S, ret |-> S.cache]
    ELSE IF S.file_text # "complete"
    THEN [s |-> [S EXCEPT !.exc = "JSONDecodeError"], ret |-> None]
    ELSE With(json_load(S, S.file), LAMBDA p :
            [s |-> [p.s EXCEPT !.cache = p.ret, !.cache_loaded = TRUE], ret |-> p.ret])

ImageStorage_save(S, data) ==
    IF S.fault = "none"
    THEN [S EXCEPT !.file = json_dump(S, data), !.file_text = "complete",
                   !.cache = data, !.cache_loaded = TRUE, !.saves = @ + 1]
    ELSE IF S.fault = "open" THEN [S EXCEPT !.exc = "OSError"]
    ELSE [S EXCEPT !.file = Written(S, data), !.file_text = S.fault, !.exc = "OSError"]

\* the record dict add() builds; metadata is the caller's dict (an identity) or None
ImageRecord(S, image_path, embedding, metadata) ==
    [image_path |-> relative_path(image_path),
     absolute_path |-> abspath(image_path),
     filename |-> basename(image_path),
     embedding |-> embedding,
     metadata |-> IF metadata # None /\ S.meta_heap[metadata] # {} THEN metadata ELSE None]

ImageStorage_add_prepend(S, image_path, embedding, metadata) ==
    With(ImageStorage_load(S), LAMBDA ld :
    With(Fresh(DOMAIN ld.s.rec_heap), LAMBDA rid :
        ImageStorage_save(
            [ld.s EXCEPT !.rec_heap = Put(@, rid, ImageRecord(ld.s, image_path, embedding, metadata)),
                         !.list_heap[ld.ret] = <<rid>> \o @],
            ld.ret)))

ImageStorage_add(S, image_path, embedding, metadata) ==
    With(ImageStorage_load(S), LAMBDA ld :
    With(Fresh(DOMAIN ld.s.rec_heap), LAMBDA rid :
        ImageStorage_save(
            [ld.s EXCEPT !.rec_heap = Put(@, rid, ImageRecord(ld.s, image_path, embedding, metadata)),
                         !.list_heap[ld.ret] = Append(@, rid)],
            ld.ret)))

ImageStorage_exists_relative(S, image_path) ==
    With(ImageStorage_load(S), LAMBDA ld :
        [s |-> ld.s,
         ret |-> \E i \in 1..Len(ld.s.list_heap[ld.ret]) :
                    ld.s.rec_heap[ld.s.list_heap[ld.ret][i]].image_path = abspath(image_path)])

ImageStorage_exists(S, image_path) ==
    With(ImageStorage_load(S), LAMBDA ld :
        [s |-> ld.s,
         ret |-> \E i \in 1..Len(ld.s.list_heap[ld.ret]) :
                    ld.s.rec_heap[ld.s.list_heap[ld.ret][i]].absolute_path = abspath(image_path)])

\* the positions of the records of data whose filename is filename
Matches(S, data, filename) ==
    {i \in 1..Len(S.list_heap[data]) : S.rec_heap[S.list_heap[data][i]].filename = filename}

\* the new list object save() is given
SaveNewList(S, new_data) ==
    With(Fresh(DOMAIN S.list_heap), LAMBDA lid :
        ImageStorage_save([S EXCEPT !.list_heap = Put(@, lid, new_data)], lid))

ImageStorage_delete_first_only(S, filename) ==
    With(ImageStorage_load(S), LAMBDA ld :
    With(ld.s.list_heap[ld.ret], LAMBDA items :
    With(Matches(ld.s, ld.ret, filename), LAMBDA hits :
        IF hits = {} THEN [s |-> ld.s, ret |-> FALSE]
        ELSE [s |-> SaveNewList(ld.s, SubSeq(items, 1, MinOf(hits) - 1)
                                       \o SubSeq(items, MinOf(hits) + 1, Len(items))),
              ret |-> TRUE])))

ImageStorage_delete(S, filename) ==
    With(ImageStorage_load(S), LAMBDA ld :
    With(ld.s.list_heap[ld.ret], LAMBDA items :
    With(SelectSeq(items, LAMBDA rid : ld.s.rec_heap[rid].filename # filename),
         LAMBDA new_data :
        IF Len(new_data) < Len(items)
        THEN [s |-> SaveNewList(ld.s, new_data), ret |-> TRUE]
        ELSE [s |-> ld.s, ret |-> FALSE])))

ImageStorage_update_metadata_replace(S, filename, new_metadata) ==
    With(ImageStorage_load(S), LAMBDA ld :
    With(Matches(ld.s, ld.ret, filename), LAMBDA hits :
        IF hits = {} THEN [s |-> ld.s, ret |-> FALSE]
        ELSE With(ld.s.list_heap[ld.ret][MinOf(hits)], LAMBDA rid :
             With(Fresh(DOMAIN ld.s.meta_heap), LAMBDA mid :
                [s |-> ImageStorage_save(
                           [ld.s EXCEPT !.meta_heap = Put(@, mid, new_metadata),
                                        !.rec_heap[rid].metadata = mid],
                           ld.ret),
                 ret |-> TRUE]))))

\* item["metadata"] = {} when the record has no such key
EnsureMetadata(S, rid) ==
    IF S.rec_heap[rid].metadata # None THEN S
    ELSE With(Fresh(DOMAIN S.meta_heap), LAMBDA mid :
            [S EXCEPT !.meta_heap = Put(@, mid, {}), !.rec_heap[rid].metadata = mid])

\* new_metadata is the patch, a dict value: update() copies its items
ImageStorage_update_metadata(S, filename, new_metadata) ==
    With(ImageStorage_load(S), LAMBDA ld :
    With(Matches(ld.s, ld.ret, filename), LAMBDA hits :
        IF hits = {} THEN [s |-> ld.s, ret |-> FALSE]
        ELSE With(ld.s.list_heap[ld.ret][MinOf(hits)], LAMBDA rid :
             With(EnsureMetadata(ld.s, rid), LAMBDA S1 :
                [s |-> ImageStorage_save(
                           [S1 EXCEPT !.meta_heap[S1.rec_heap[rid].metadata] =
                                          DictUpdate(@, new_metadata)],
                           ld.ret),
                 ret |-> TRUE]))))

ImageStorage_clear_cache(S) == [S EXCEPT !.cache_loaded = FALSE, !.cache = None]

\* len(self.load()); nothing is returned when load raises
ImageStorage_count(S) ==
    With(ImageStorage_load(S), LAMBDA ld :
        [s |-> ld.s,
         ret |-> IF ld.s.exc # "none" THEN <<>> ELSE Len(ld.s.list_heap[ld.ret])])

(***************************************************************************)
(* The embedding collaborators, as fixed tables.  An unreadable image and  *)
(* an unencodable query make the encoder return None (<<>>); otherwise the *)
(* result is <<vector>>.                                                   *)
(***************************************************************************)
ImgAX  == <<"a", "x.jpg">>
ImgBX  == <<"b", "x.jpg">>
ImgAY  == <<"a", "y.jpg">>
ImgBad == <<"a", "bad.jpg">>
\* a copy of a/y.jpg in another folder
ImgBY  == <<"b", "y.jpg">>

ImagePaths == {ImgAX, ImgBX, ImgAY, ImgBad}

Filenames == {"x.jpg", "y.jpg"}

encode_image(image_path) ==
    IF abspath(image_path) = abspath(ImgAX) THEN << <<3, 4>> >>
    ELSE IF abspath(image_path) = abspath(ImgBX) THEN << <<4, 3>> >>
    ELSE IF abspath(image_path) = abspath(ImgAY) THEN << <<0, 5>> >>
    ELSE IF abspath(image_path) = abspath(ImgBY) THEN << <<0, 5>> >>
    ELSE <<>>

QueryTexts == {"cat", "dog", "bad"}

encode_text(query) ==
    IF query = "cat" THEN << <<5, 0>> >>
    ELSE IF query = "dog" THEN << <<3, 4>> >>
    ELSE <<>>

\* folder -> the image files glob finds in it; a folder not listed does not exist
Folders == {<<"a">>, <<"b">>, <<"empty">>, <<"missing">>}

folder_exists(folder_path) == folder_path # <<"missing">>

image_files(folder_path) ==
    IF folder_path = <<"a">> THEN <<ImgAX, ImgBad, ImgAY>>
    ELSE IF folder_path = <<"b">> THEN <<ImgBX>>
    ELSE <<>>

\* the metadata dicts and patches the callers pass
MetaArgs == { {<<"tipo", "x">>, <<"src", "d">>} }

Patches == { {<<"tipo", "y">>, <<"status", "v">>} }

(***************************************************************************)
(* list.sort(key=score, reverse=True): stable, descending.                 *)
(***************************************************************************)
\* the position x takes: before the first element with a smaller score
InsertAt_before_equal(sorted, x) ==
    IF \E j \in 1..Len(sorted) : sorted[j].score <= x.score
    THEN MinOf({j \in 1..Len(sorted) : sorted[j].score <= x.score})
    ELSE Len(sorted) + 1

InsertAt(sorted, x) ==
    IF \E j \in 1..Len(sorted) : sorted[j].score < x.score
    THEN MinOf({j \in 1..Len(sorted) : sorted[j].score < x.score})
    ELSE Len(sorted) + 1

InsertDesc(sorted, x) ==
    SubSeq(sorted, 1, InsertAt(sorted, x) - 1) \o <<x>>
        \o SubSeq(sorted, InsertAt(sorted, x), Len(sorted))

RECURSIVE SortDescFrom(_, _, _)
SortDescFrom(seq, i, acc) ==
    IF i > Len(seq) THEN acc ELSE SortDescFrom(seq, i + 1, InsertDesc(acc, seq[i]))

SortDesc(seq) == SortDescFrom(seq, 1, <<>>)

\* results[:top_k] for top_k >= 0
Take(seq, top_k) == SubSeq(seq, 1, IF top_k < Len(seq) THEN top_k ELSE Len(seq))

(***************************************************************************)
(* MultimodalDB                                                            *)
(***************************************************************************)
\* the embeddings of the records of the list data, in order
EmbeddingsOf(S, data) ==
    [i \in 1..Len(S.list_heap[data]) |-> S.rec_heap[S.list_heap[data][i]].embedding]

MultimodalDB_load_vectors(S) ==
    IF S.vectors_cache # <<>> THEN S
    ELSE With(ImageStorage_load(S), LAMBDA ld :
            [ld.s EXCEPT !.vectors_cache = << EmbeddingsOf(ld.s, ld.ret) >>,
                         !.data_cache = ld.ret])

MultimodalDB_invalidate_cache_noop(S) == S

MultimodalDB_invalidate_cache(S) ==
    [S EXCEPT !.vectors_cache = <<>>, !.data_cache = None]

\* add_image after the skip_if_exists check; encoded lists the paths given to
\* clip.encode_image
add_image_encode(S, image_path, metadata) ==
    IF encode_image(image_path) = <<>>
    THEN [s |-> S, ret |-> FALSE, encoded |-> <<image_path>>]
    ELSE [s |-> MultimodalDB_invalidate_cache(
                    ImageStorage_add(S, image_path, encode_image(image_path)[1], metadata)),
          ret |-> TRUE, encoded |-> <<image_path>>]

RECURSIVE add_folder_loop_stops_on_error(_, _, _, _, _)

MultimodalDB_add_image_encodes_first(S, image_path, metadata, skip_if_exists) ==
    IF skip_if_exists
    THEN With(ImageStorage_exists(S, image_path), LAMBDA ex :
            IF ex.ret THEN [s |-> ex.s, ret |-> FALSE, encoded |-> <<image_path>>]
            ELSE add_image_encode(ex.s, image_path, metadata))
    ELSE add_image_encode(S, image_path, metadata)

MultimodalDB_add_image(S, image_path, metadata, skip_if_exists) ==
    IF skip_if_exists
    THEN With(ImageStorage_exists(S, image_path), LAMBDA ex :
            IF ex.ret THEN [s |-> ex.s, ret |-> FALSE, encoded |-> <<>>]
            ELSE add_image_encode(ex.s, image_path, metadata))
    ELSE add_image_encode(S, image_path, metadata)

add_folder_loop_stops_on_error(S, files, i, metadata, stats) ==
    IF i > Len(files) THEN [s |-> S, ret |-> stats]
    ELSE With(MultimodalDB_add_image(S, files[i], metadata, TRUE), LAMBDA a :
            IF a.ret
            THEN add_folder_loop_stops_on_error(a.s, files, i + 1, metadata,
                                                [stats EXCEPT !.added = @ + 1])
            ELSE With(ImageStorage_exists(a.s, files[i]), LAMBDA e :
                    IF e.ret
                    THEN add_folder_loop_stops_on_error(e.s, files, i + 1, metadata,
                                                        [stats EXCEPT !.skipped = @ + 1])
                    ELSE [s |-> e.s, ret |-> [stats EXCEPT !.errors = @ + 1]]))

RECURSIVE add_folder_loop(_, _, _, _, _)
add_folder_loop(S, files, i, metadata, stats) ==
    IF i > Len(files) THEN [s |-> S, ret |-> stats]
    ELSE With(MultimodalDB_add_image(S, files[i], metadata, TRUE), LAMBDA a :
            IF a.ret
            THEN add_folder_loop(a.s, files, i + 1, metadata, [stats EXCEPT !.added = @ + 1])
            ELSE With(ImageStorage_exists(a.s, files[i]), LAMBDA e :
                    IF e.ret
                    THEN add_folder_loop(e.s, files, i + 1, metadata,
                                         [stats EXCEPT !.skipped = @ + 1])
                    ELSE add_folder_loop(e.s, files, i + 1, metadata,
                                         [stats EXCEPT !.errors = @ + 1])))

MultimodalDB_add_folder(S, folder_path, metadata) ==
    IF ~folder_exists(folder_path)
    THEN [s |-> S, ret |-> [added |-> 0, skipped |-> 0, errors |-> 0]]
    ELSE IF image_files(folder_path) = <<>>
    THEN [s |-> S, ret |-> [added |-> 0, skipped |-> 0, errors |-> 0]]
    ELSE add_folder_loop(S, image_files(folder_path), 1, metadata,
                         [added |-> 0, skipped |-> 0, errors |-> 0])

\* the records the scoring loop visits: zip(_vectors_cache, _data_cache)
ZipCaches(S) ==
    [i \in 1..ZipLen(S.vectors_cache[1], S.list_heap[S.data_cache]) |->
        [vec |-> S.vectors_cache[1][i], rid |-> S.list_heap[S.data_cache][i]]]

ImageResult(S, z, score) ==
    [score |-> score,
     image_path |-> S.rec_heap[z.rid].image_path,
     filename |-> S.rec_heap[z.rid].filename,
     metadata |-> IF S.rec_heap[z.rid].metadata = None THEN {}
                  ELSE S.meta_heap[S.rec_heap[z.rid].metadata]]

RECURSIVE image_search_loop_keeps_self(_, _, _, _, _, _, _)
image_search_loop_keeps_self(S, zs, i, query_embedding, min_score, query_abs, results) ==
    IF i > Len(zs) THEN results
    ELSE With(np_cosine_similarity(query_embedding, zs[i].vec), LAMBDA score :
            IF score < min_score
            THEN image_search_loop_keeps_self(S, zs, i + 1, query_embedding, min_score,
                                              query_abs, results)
            ELSE image_search_loop_keeps_self(S, zs, i + 1, query_embedding, min_score,
                                              query_abs,
                                              Append(results, ImageResult(S, zs[i], score))))

RECURSIVE image_search_loop(_, _, _, _, _, _, _)
image_search_loop(S, zs, i, query_embedding, min_score, query_abs, results) ==
    IF i > Len(zs) THEN results
    ELSE IF query_abs # <<>> /\ S.rec_heap[zs[i].rid].absolute_path = query_abs[1]
         THEN image_search_loop(S, zs, i + 1, query_embedding, min_score, query_abs, results)
    ELSE With(np_cosine_similarity(query_embedding, zs[i].vec), LAMBDA score :
            IF score < min_score
            THEN image_search_loop(S, zs, i + 1, query_embedding, min_score, query_abs, results)
            ELSE image_search_loop(S, zs, i + 1, query_embedding, min_score, query_abs,
                                   Append(results, ImageResult(S, zs[i], score))))

\* the loop over zip(_vectors_cache, _data_cache), the sort and the cut.
\* ret: the result list; scored: <<the record values the loop ran over>>
image_search(S, query_embedding, top_k, min_score, query_abs) ==
    With(ZipCaches(S), LAMBDA zs :
        [s |-> S,
         ret |-> Take(SortDesc(image_search_loop(S, zs, 1, query_embedding, min_score,
                                                 query_abs, <<>>)),
                      top_k),
         scored |-> << [i \in 1..Len(zs) |-> RecVal(S, zs[i].rid)] >>])

\* scored is <<>> when the call returned before the loop
MultimodalDB_search_by_text(S, query, top_k, min_score) ==
    With(MultimodalDB_load_vectors(S), LAMBDA S1 :
        IF S1.vectors_cache[1] = <<>> THEN [s |-> S1, ret |-> <<>>, scored |-> <<>>]
        ELSE IF encode_text(query) = <<>> THEN [s |-> S1, ret |-> <<>>, scored |-> <<>>]
        ELSE image_search(S1, encode_text(query)[1], top_k, min_score, <<>>))

MultimodalDB_search_by_image(S, image_path, top_k, min_score) ==
    With(MultimodalDB_load_vectors(S), LAMBDA S1 :
        IF S1.vectors_cache[1] = <<>> THEN [s |-> S1, ret |-> <<>>, scored |-> <<>>]
        ELSE IF encode_image(image_path) = <<>> THEN [s |-> S1, ret |-> <<>>, scored |-> <<>>]
        ELSE image_search(S1, encode_image(image_path)[1], top_k, min_score,
                          <<abspath(image_path)>>))

MultimodalDB_remove_image_always_invalidates(S, filename) ==
    With(ImageStorage_delete(S, filename), LAMBDA d :
        [s |-> MultimodalDB_invalidate_cache(d.s), ret |-> d.ret])

MultimodalDB_remove_image(S, filename) ==
    With(ImageStorage_delete(S, filename), LAMBDA d :
        IF d.ret THEN [s |-> MultimodalDB_invalidate_cache(d.s), ret |-> TRUE]
        ELSE [s |-> d.s, ret |-> FALSE])

MultimodalDB_update_image_info(S, filename, extra_metadata) ==
    With(ImageStorage_update_metadata(S, filename, extra_metadata), LAMBDA u :
        IF u.ret THEN [s |-> MultimodalDB_invalidate_cache(u.s), ret |-> TRUE]
        ELSE [s |-> u.s, ret |-> FALSE])

(***************************************************************************)
(* Text.  A string is the sequence of its characters.                      *)
(***************************************************************************)
UpperCase == <<"A", "B", "C", "D", "E", "F", "G", "H", "I", "J", "K", "L", "M",
               "N", "O", "P", "Q", "R", "S", "T", "U", "V", "W", "X", "Y", "Z">>

LowerCase == <<"a", "b", "c", "d", "e", "f", "g", "h", "i", "j", "k", "l", "m",
               "n", "o", "p", "q", "r", "s", "t", "u", "v", "w", "x", "y", "z">>

Digits == {"0", "1", "2", "3", "4", "5", "6", "7", "8", "9"}

\* str.lower() on one character
LowerOf == [u \in Range(UpperCase) |->
               LowerCase[CHOOSE i \in 1..Len(UpperCase) : UpperCase[i] = u]]

lower(c) == IF c \in DOMAIN LowerOf THEN LowerOf[c] ELSE c

\* \w and \s of the regular expressions
WordChars == Range(UpperCase) \cup Range(LowerCase) \cup Digits \cup {"_", "é", "à"}

IsWordChar(c) == c \in WordChars

IsSpace(c) == c \in {" ", "\t", "\n"}

\* re.sub(r'\s+', ' ', text)
RECURSIVE CollapseSpaces(_, _, _)
CollapseSpaces(t, i, acc) ==
    IF i > Len(t) THEN acc
    ELSE IF IsSpace(t[i])
         THEN CollapseSpaces(t, i + 1,
                             IF Len(acc) > 0 /\ i > 1 /\ IsSpace(t[i - 1]) THEN acc
                             ELSE Append(acc, " "))
         ELSE CollapseSpaces(t, i + 1, Append(acc, t[i]))

\* str.strip()
RECURSIVE Strip(_)
Strip(t) ==
    IF Len(t) > 0 /\ IsSpace(t[1]) THEN Strip(Tail(t))
    ELSE IF Len(t) > 0 /\ IsSpace(t[Len(t)]) THEN Strip(SubSeq(t, 1, Len(t) - 1))
    ELSE t

\* re.sub(r'[^\w\s]', ' ', text)
PunctToSpace(text) ==
    [i \in 1..Len(text) |-> IF IsWordChar(text[i]) \/ IsSpace(text[i]) THEN text[i] ELSE " "]

normalize_text_keep_case(text) ==
    Strip(CollapseSpaces(PunctToSpace(text), 1, <<>>))

normalize_text(text) ==
    Strip(CollapseSpaces(PunctToSpace([i \in 1..Len(text) |-> lower(text[i])]), 1, <<>>))

\* str.split(): the maximal runs of non-space characters
RECURSIVE SplitFrom(_, _, _, _)
SplitFrom(t, i, word, acc) ==
    IF i > Len(t) THEN (IF word = <<>> THEN acc ELSE Append(acc, word))
    ELSE IF IsSpace(t[i])
         THEN SplitFrom(t, i + 1, <<>>, IF word = <<>> THEN acc ELSE Append(acc, word))
         ELSE SplitFrom(t, i + 1, Append(word, t[i]), acc)

split(t) == SplitFrom(t, 1, <<>>, <<>>)

stop_words ==
    {<<"o">>, <<"a">>, <<"d", "e">>, <<"d", "a">>, <<"d", "o">>, <<"e">>, <<"é">>,
     <<"e", "m">>, <<"u", "m">>, <<"u", "m", "a">>, <<"o", "s">>, <<"a", "s">>,
     <<"p", "a", "r", "a">>, <<"c", "o", "m">>, <<"p", "o", "r">>, <<"n", "o">>,
     <<"n", "a">>, <<"d", "o", "s">>, <<"d", "a", "s">>, <<"a", "o">>, <<"à">>,
     <<"t", "h", "e">>, <<"i", "s">>, <<"a", "r", "e">>, <<"i", "n">>, <<"o", "f">>,
     <<"a", "n", "d">>, <<"t", "o">>, <<"a", "n">>}

extract_keywords(text) ==
    {w \in Range(split(normalize_text(text))) : Len(w) > 2 /\ w \notin stop_words}

(***************************************************************************)
(* The text embedding collaborator, as a fixed table over the texts of the *)
(* model.                                                                  *)
(***************************************************************************)
TextCat  == <<"C", "a", "t">>
TextCat2 == <<"c", "a", "t", "!">>
TextDog  == <<"a", " ", "d", "o", "g">>
TextCatDog == <<"c", "a", "t", " ", "d", "o", "g">>
TextOx   == <<"o", "x">>

Embeddings_encode(text) ==
    IF text = TextCat THEN <<3, 4>>
    ELSE IF text = TextCat2 THEN <<4, 3>>
    ELSE IF text = TextDog THEN <<0, 5>>
    ELSE IF text = TextCatDog THEN <<3, 4>>
    ELSE IF text = TextOx THEN <<-3, 4>>
    ELSE <<5, 0>>

\* <<text, metadata>>: the documents the callers add (metadata <<>> is None)
Documents ==
    {<<TextCat, <<>> >>, <<TextCat2, <<>> >>, <<TextDog, << {<<"category", "animal">>} >> >>}

(***************************************************************************)
(* Storage (the text store)                                                *)
(***************************************************************************)
Storage_load_recovers(S) ==
    IF S.cache_loaded THEN [s |-> S, ret |-> S.cache]
    ELSE With(json_load(S, IF S.file_text # "complete" THEN <<>> ELSE S.file), LAMBDA p :
            [s |-> [p.s EXCEPT !.cache = p.ret, !.cache_loaded = TRUE], ret |-> p.ret])

Storage_load(S) ==
    IF S.cache_loaded THEN [s |-> S, ret |-> S.cache]
    ELSE IF S.file_text # "complete"
    THEN [s |-> [S EXCEPT !.exc = "JSONDecodeError"], ret |-> None]
    ELSE With(json_load(S, S.file), LAMBDA p :
            [s |-> [p.s EXCEPT !.cache = p.ret, !.cache_loaded = TRUE], ret |-> p.ret])

Storage_save_keeps_cache(S, data) ==
    [S EXCEPT !.file = json_dump(S, data), !.file_text = "complete", !.saves = @ + 1]

Storage_save(S, data) ==
    IF S.fault = "none"
    THEN [S EXCEPT !.file = json_dump(S, data), !.file_text = "complete",
                   !.cache = data, !.cache_loaded = TRUE, !.saves = @ + 1]
    ELSE IF S.fault = "open" THEN [S EXCEPT !.exc = "OSError"]
    ELSE [S EXCEPT !.file = Written(S, data), !.file_text = S.fault, !.exc = "OSError"]

Storage_clear_cache(S) == [S EXCEPT !.cache_loaded = FALSE, !.cache = None]

\* len(self.load()); nothing is returned when load raises
Storage_count(S) ==
    With(Storage_load(S), LAMBDA ld :
        [s |-> ld.s,
         ret |-> IF ld.s.exc # "none" THEN <<>> ELSE Len(ld.s.list_heap[ld.ret])])

\* the record dict add() builds; metadata is the caller's dict (an identity) or None
TextRecord(S, text, embedding, metadata) ==
    [text |-> text, embedding |-> embedding,
     metadata |-> IF metadata # None /\ S.meta_heap[metadata] # {} THEN metadata ELSE None]

Storage_add_prepend(S, text, embedding, metadata) ==
    With(Storage_load(S), LAMBDA ld :
    With(Fresh(DOMAIN ld.s.rec_heap), LAMBDA rid :
        Storage_save(
            [ld.s EXCEPT !.rec_heap = Put(@, rid, TextRecord(ld.s, text, embedding, metadata)),
                         !.list_heap[ld.ret] = <<rid>> \o @],
            ld.ret)))

Storage_add_rereads(S, text, embedding, metadata) ==
    With(Storage_load(Storage_clear_cache(S)), LAMBDA ld :
    With(Fresh(DOMAIN ld.s.rec_heap), LAMBDA rid :
        Storage_save(
            [ld.s EXCEPT !.rec_heap = Put(@, rid, TextRecord(ld.s, text, embedding, metadata)),
                         !.list_heap[ld.ret] = Append(@, rid)],
            ld.ret)))

Storage_add(S, text, embedding, metadata) ==
    With(Storage_load(S), LAMBDA ld :
    With(Fresh(DOMAIN ld.s.rec_heap), LAMBDA rid :
        Storage_save(
            [ld.s EXCEPT !.rec_heap = Put(@, rid, TextRecord(ld.s, text, embedding, metadata)),
                         !.list_heap[ld.ret] = Append(@, rid)],
            ld.ret)))


\* the attributes an instance of Storage has (set in __init__)
Storage_attributes == {"path", "_cache", "_cache_loaded"}

\* Storage.remove_image and Storage.update_image_info start by reading
\* self.storage: exc is the exception raised, ret the value returned otherwise
Storage_remove_image(S, filename) ==
    IF "storage" \notin Storage_attributes
    THEN [s |-> S, exc |-> "AttributeError", ret |-> FALSE]
    ELSE With(ImageStorage_delete(S, filename), LAMBDA d :
            [s |-> d.s, exc |-> "none", ret |-> d.ret])

Storage_update_image_info(S, filename, extra_metadata) ==
    IF "storage" \notin Storage_attributes
    THEN [s |-> S, exc |-> "AttributeError", ret |-> FALSE]
    ELSE With(ImageStorage_update_metadata(S, filename, extra_metadata), LAMBDA u :
            [s |-> u.s, exc |-> "none", ret |-> u.ret])


(***************************************************************************)
(* Index                                                                   *)
(***************************************************************************)
\* Index.__init__: threshold=0.45
Index_threshold == Pct(45)

Index_load_vectors(S) ==
    IF S.vectors_cache # <<>> THEN S
    ELSE With(Storage_load(S), LAMBDA ld :
            [ld.s EXCEPT !.data_cache = ld.ret,
                         !.vectors_cache = << EmbeddingsOf(ld.s, ld.ret) >>])


Index_invalidate_cache_noop(S) == S

Index_invalidate_cache(S) ==
    [S EXCEPT !.vectors_cache = <<>>, !.data_cache = None]

\* The dynamic threshold min(max(0.2, mean - 0.5 * std), 0.6) is not a multiple
\* of 1/Scale in general (std is a square root), so it is kept as the numbers
\* it is computed from: n scores, their sum and the sum of their squares.
Index_calculate_dynamic_threshold(similarities) ==
    [kind |-> "dynamic",
     n |-> Len(similarities),
     sum |-> SumTo(similarities, Len(similarities)),
     sumsq |-> SumTo([i \in 1..Len(similarities) |-> similarities[i] * similarities[i]],
                     Len(similarities))]

StaticThreshold(value) == [kind |-> "static", value |-> value]

\* score < mean - 0.5 * std, with mean = sum/n and std = sqrt(n*sumsq - sum^2)/n:
\* 0.5 * std < mean - score  iff  sum - n*score > 0 and n*sumsq - sum^2 < 4*(sum - n*score)^2
BelowMeanMinusHalfStd(score, t) ==
    /\ t.sum - t.n * score > 0
    /\ t.n * t.sumsq - t.sum * t.sum < 4 * (t.sum - t.n * score) * (t.sum - t.n * score)


ScoreBelow_unclamped(score, threshold) ==
    IF threshold.kind = "static" THEN score < threshold.value
    ELSE BelowMeanMinusHalfStd(score, threshold)

\* score < threshold
ScoreBelow(score, threshold) ==
    IF threshold.kind = "static" THEN score < threshold.value
    ELSE score < Pct(60) /\ (score < Pct(20) \/ BelowMeanMinusHalfStd(score, threshold))

Boosted_uncapped(query_keywords, text_keywords, base_score) ==
    base_score + (Cardinality(query_keywords \cap text_keywords) * Pct(15))
                 \div Cardinality(query_keywords \cup text_keywords)

\* min(base_score + boost, 1.0) for the two keyword sets
Boosted(query_keywords, text_keywords, base_score) ==
    With(base_score + (Cardinality(query_keywords \cap text_keywords) * Pct(15))
                      \div Cardinality(query_keywords \cup text_keywords),
         LAMBDA boosted : IF boosted > Scale THEN Scale ELSE boosted)

Index_apply_boosting(query, text, base_score) ==
    With(extract_keywords(query), LAMBDA query_keywords :
    With(extract_keywords(text), LAMBDA text_keywords :
        IF query_keywords = {} \/ text_keywords = {} THEN base_score
        ELSE IF Cardinality(query_keywords \cup text_keywords) = 0 THEN base_score
        ELSE Boosted(query_keywords, text_keywords, base_score)))

\* the dict appended to results for the record item with similarity score
TextResult(S, item, score, query_text, apply_boosting) ==
    [score |-> IF apply_boosting /\ query_text # <<>> /\ query_text[1] # <<>>
               THEN Index_apply_boosting(query_text[1], item.text, score)
               ELSE score,
     text |-> item.text,
     original_score |-> score,
     metadata |-> IF item.metadata = None THEN {} ELSE S.meta_heap[item.metadata]]

RECURSIVE Index_search_loop_boost_first(_, _, _, _, _, _, _, _, _, _)
Index_search_loop_boost_first(S, items, similarities, idx, threshold, min_relevance, query_text, apply_boosting, seen, results) ==
    IF idx > Len(items) THEN results
    ELSE With(S.rec_heap[items[idx]], LAMBDA item :
         With(TextResult(S, item, similarities[idx], query_text, apply_boosting), LAMBDA res :
            IF \/ ScoreBelow(res.score, threshold)
               \/ res.score < min_relevance
               \/ normalize_text(item.text) \in seen
            THEN Index_search_loop_boost_first(S, items, similarities, idx + 1, threshold,
                                               min_relevance, query_text, apply_boosting,
                                               seen, results)
            ELSE Index_search_loop_boost_first(S, items, similarities, idx + 1, threshold,
                                               min_relevance, query_text, apply_boosting,
                                               seen \cup {normalize_text(item.text)},
                                               Append(results, res))))

RECURSIVE Index_search_loop_raw_dedup(_, _, _, _, _, _, _, _, _, _)
Index_search_loop_raw_dedup(S, items, similarities, idx, threshold, min_relevance, query_text, apply_boosting, seen, results) ==
    IF idx > Len(items) THEN results
    ELSE With(S.rec_heap[items[idx]], LAMBDA item :
            IF \/ ScoreBelow(similarities[idx], threshold)
               \/ similarities[idx] < min_relevance
               \/ item.text \in seen
            THEN Index_search_loop_raw_dedup(S, items, similarities, idx + 1, threshold,
                                             min_relevance, query_text, apply_boosting,
                                             seen, results)
            ELSE Index_search_loop_raw_dedup(S, items, similarities, idx + 1, threshold,
                                             min_relevance, query_text, apply_boosting,
                                             seen \cup {item.text},
                                             Append(results,
                                                    TextResult(S, item, similarities[idx],
                                                               query_text, apply_boosting))))

RECURSIVE Index_search_loop_marks_failed(_, _, _, _, _, _, _, _, _, _)
Index_search_loop_marks_failed(S, items, similarities, idx, threshold, min_relevance, query_text, apply_boosting, seen, results) ==
    IF idx > Len(items) THEN results
    ELSE With(S.rec_heap[items[idx]], LAMBDA item :
         With(normalize_text(item.text), LAMBDA text_norm :
            IF \/ ScoreBelow(similarities[idx], threshold)
               \/ similarities[idx] < min_relevance
               \/ text_norm \in seen
            THEN Index_search_loop_marks_failed(S, items, similarities, idx + 1, threshold,
                                                min_relevance, query_text, apply_boosting,
                                                seen \cup {text_norm}, results)
            ELSE Index_search_loop_marks_failed(S, items, similarities, idx + 1, threshold,
                                                min_relevance, query_text, apply_boosting,
                                                seen \cup {text_norm},
                                                Append(results,
                                                       TextResult(S, item, similarities[idx],
                                                                  query_text, apply_boosting)))))

RECURSIVE Index_search_loop(_, _, _, _, _, _, _, _, _, _)
Index_search_loop(S, items, similarities, idx, threshold, min_relevance, query_text, apply_boosting, seen, results) ==
    IF idx > Len(items) THEN results
    ELSE With(S.rec_heap[items[idx]], LAMBDA item :
         With(normalize_text(item.text), LAMBDA text_norm :
            IF \/ ScoreBelow(similarities[idx], threshold)
               \/ similarities[idx] < min_relevance
               \/ text_norm \in seen
            THEN Index_search_loop(S, items, similarities, idx + 1, threshold,
                                   min_relevance, query_text, apply_boosting, seen, results)
            ELSE Index_search_loop(S, items, similarities, idx + 1, threshold,
                                   min_relevance, query_text, apply_boosting,
                                   seen \cup {text_norm},
                                   Append(results,
                                          TextResult(S, item, similarities[idx], query_text,
                                                     apply_boosting)))))

Index_search_scored_fallback(S, items, similarities, top_k, query_text, use_dynamic_threshold, apply_boosting, min_relevance) ==
    [s |-> S,
     ret |-> With(IF use_dynamic_threshold
                  THEN Index_calculate_dynamic_threshold(similarities)
                  ELSE StaticThreshold(Index_threshold), LAMBDA threshold :
             With(Index_search_loop(S, items, similarities, 1, threshold, min_relevance,
                                    query_text, apply_boosting, {}, <<>>), LAMBDA results :
                 Take(SortDesc(IF results # <<>> THEN results
                               ELSE Index_search_loop(S, items, similarities, 1, threshold, 0,
                                                      query_text, apply_boosting, {}, <<>>)),
                      top_k))),
     scored |-> << [i \in 1..Len(items) |-> RecVal(S, items[i])] >>]

\* a search that sorts the cached collection itself by text length, longest first
Index_search_scored_reorders(S, items, similarities, top_k, query_text, use_dynamic_threshold, apply_boosting, min_relevance) ==
    [s |-> [S EXCEPT !.list_heap[S.data_cache] =
                SortDesc([i \in 1..Len(items) |->
                             [score |-> Len(S.rec_heap[items[i]].text), rid |-> items[i]]]),
            !.list_heap[S.data_cache] = [i \in 1..Len(items) |-> @[i].rid]],
     ret |-> Take(SortDesc(Index_search_loop(
                      S, items, similarities, 1,
                      IF use_dynamic_threshold
                      THEN Index_calculate_dynamic_threshold(similarities)
                      ELSE StaticThreshold(Index_threshold),
                      min_relevance, query_text, apply_boosting, {}, <<>>)),
                  top_k),
     scored |-> << [i \in 1..Len(items) |-> RecVal(S, items[i])] >>]

\* the similarities, the threshold, the loop, the sort and the cut
Index_search_scored(S, items, similarities, top_k, query_text, use_dynamic_threshold, apply_boosting, min_relevance) ==
    [s |-> S,
     ret |-> Take(SortDesc(Index_search_loop(
                      S, items, similarities, 1,
                      IF use_dynamic_threshold
                      THEN Index_calculate_dynamic_threshold(similarities)
                      ELSE StaticThreshold(Index_threshold),
                      min_relevance, query_text, apply_boosting, {}, <<>>)),
                  top_k),
     scored |-> << [i \in 1..Len(items) |-> RecVal(S, items[i])] >>]

Index_search_no_guard(S, query_emb, top_k, query_text, use_dynamic_threshold, apply_boosting, min_relevance) ==
    With(Index_load_vectors(S), LAMBDA S1 :
        Index_search_scored(
            S1, S1.list_heap[S1.data_cache],
            [i \in 1..Len(S1.list_heap[S1.data_cache]) |->
                cosine_similarity(query_emb,
                                  S1.rec_heap[S1.list_heap[S1.data_cache][i]].embedding)],
            top_k, query_text, use_dynamic_threshold, apply_boosting, min_relevance))

\* query_text: <<>> is None, <<t>> the text t.  ret: the result list; scored:
\* <<the record values the similarities were computed for>>, or <<>> when the
\* call returned before computing any
Index_search(S, query_emb, top_k, query_text, use_dynamic_threshold, apply_boosting, min_relevance) ==
    With(Index_load_vectors(S), LAMBDA S1 :
        IF S1.list_heap[S1.data_cache] = <<>> THEN [s |-> S1, ret |-> <<>>, scored |-> <<>>]
        ELSE Index_search_scored(
                 S1, S1.list_heap[S1.data_cache],
                 [i \in 1..Len(S1.list_heap[S1.data_cache]) |->
                     cosine_similarity(query_emb,
                                       S1.rec_heap[S1.list_heap[S1.data_cache][i]].embedding)],
                 top_k, query_text, use_dynamic_threshold, apply_boosting, min_relevance))

(***************************************************************************)
(* VectorDB                                                                *)
(***************************************************************************)

\* ret: the tuple returned, as a record (score and text: <<>> is None);
\* examined: how many records the loop visited
RECURSIVE exists_similar_loop(_, _, _, _, _)
exists_similar_loop(S, items, i, vector, threshold) ==
    IF i > Len(items)
    THEN [exists |-> FALSE, score |-> <<>>, text |-> <<>>, examined |-> Len(items)]
    ELSE With(cosine_similarity(vector, S.rec_heap[items[i]].embedding), LAMBDA score :
            IF score >= threshold
            THEN [exists |-> TRUE, score |-> <<score>>,
                  text |-> <<S.rec_heap[items[i]].text>>, examined |-> i]
            ELSE exists_similar_loop(S, items, i + 1, vector, threshold))

VectorDB_exists_similar_strict(S, vector, threshold) ==
    With(Storage_load(S), LAMBDA ld :
        [s |-> ld.s,
         ret |-> exists_similar_loop(ld.s, ld.s.list_heap[ld.ret], 1, vector, threshold + 1)])

VectorDB_exists_similar(S, vector, threshold) ==
    With(Storage_load(S), LAMBDA ld :
        [s |-> ld.s,
         ret |-> exists_similar_loop(ld.s, ld.s.list_heap[ld.ret], 1, vector, threshold)])

\* add after the duplicate check
add_store(S, text, emb, metadata, guard) ==
    [s |-> Index_invalidate_cache(Storage_add(S, text, emb, metadata)),
     ret |-> TRUE, guard |-> guard]

VectorDB_add_unguarded(S, text, metadata, check_duplicates, duplicate_threshold) ==
    add_store(S, text, Embeddings_encode(text), metadata, <<>>)

VectorDB_add_reject_invalidates(S, text, metadata, check_duplicates, duplicate_threshold) ==
    IF check_duplicates
    THEN With(VectorDB_exists_similar(S, Embeddings_encode(text), duplicate_threshold),
              LAMBDA g :
                IF g.ret.exists
                THEN [s |-> Index_invalidate_cache(g.s), ret |-> FALSE, guard |-> <<g.ret>>]
                ELSE add_store(g.s, text, Embeddings_encode(text), metadata, <<g.ret>>))
    ELSE add_store(S, text, Embeddings_encode(text), metadata, <<>>)

\* guard: what exists_similar returned, or <<>> when it was not called
VectorDB_add(S, text, metadata, check_duplicates, duplicate_threshold) ==
    IF check_duplicates
    THEN With(VectorDB_exists_similar(S, Embeddings_encode(text), duplicate_threshold),
              LAMBDA g :
                IF g.ret.exists THEN [s |-> g.s, ret |-> FALSE, guard |-> <<g.ret>>]
                ELSE add_store(g.s, text, Embeddings_encode(text), metadata, <<g.ret>>))
    ELSE add_store(S, text, Embeddings_encode(text), metadata, <<>>)


VectorDB_search(S, query, top_k, use_dynamic_threshold, apply_boosting, min_relevance) ==
    Index_search(S, Embeddings_encode(query), top_k, <<query>>, use_dynamic_threshold,
                 apply_boosting, min_relevance)

(***************************************************************************)
(* The state machine.  Every action is one call of a public operation,     *)
(* run to completion (the program is single-threaded and synchronous).     *)
(* Objects no field refers to any more are dropped, as the Python runtime  *)
(* does, and the identities of the others are renumbered in the order in   *)
(* which the fields reach them: which address an object has is not         *)
(* observable, which references share an object is, and is kept.           *)
(***************************************************************************)
RECURSIVE DedupFrom(_, _, _)
DedupFrom(seq, i, acc) ==
    IF i > Len(seq) THEN acc
    ELSE DedupFrom(seq, i + 1, IF seq[i] \in Range(acc) THEN acc ELSE Append(acc, seq[i]))

Dedup(seq) == DedupFrom(seq, 1, <<>>)

IndexOf(seq, x) == MinOf({i \in 1..Len(seq) : seq[i] = x})

LiveLists(S) ==
    Dedup(SelectSeq(<<S.cache, S.data_cache>>, LAMBDA l : l # None))

RECURSIVE ConcatLists(_, _, _)
ConcatLists(S, ls, i) ==
    IF i > Len(ls) THEN <<>> ELSE S.list_heap[ls[i]] \o ConcatLists(S, ls, i + 1)

LiveRecs(S) == Dedup(ConcatLists(S, LiveLists(S), 1))

LiveMetas(S) ==
    LET rs == LiveRecs(S)
    IN  Dedup(SelectSeq([i \in 1..Len(rs) |-> S.rec_heap[rs[i]].metadata],
                        LAMBDA m : m # None))

Install(S) ==
    LET ls == LiveLists(S)
        rs == LiveRecs(S)
        ms == LiveMetas(S)
    IN  /\ list_heap' = [i \in 1..Len(ls) |->
                            [j \in 1..Len(S.list_heap[ls[i]]) |->
                                IndexOf(rs, S.list_heap[ls[i]][j])]]
        /\ rec_heap' = [i \in 1..Len(rs) |->
                            [S.rec_heap[rs[i]] EXCEPT
                                !.metadata = IF @ = None THEN None ELSE IndexOf(ms, @)]]
        /\ meta_heap' = [i \in 1..Len(ms) |-> S.meta_heap[ms[i]]]
        /\ cache' = IF S.cache = None THEN None ELSE IndexOf(ls, S.cache)
        /\ cache_loaded' = S.cache_loaded
        /\ file' = S.file
        /\ file_text' = S.file_text
        /\ peer' = S.peer
        /\ vectors_cache' = S.vectors_cache
        /\ data_cache' = IF S.data_cache = None THEN None ELSE IndexOf(ls, S.data_cache)

\* what held when the call started: the number of records of the file, and
\* whether the store cache was loaded
Pre == [count |-> Len(file), loaded |-> cache_loaded]

\* How far the calls made so far, up to the last one, follow the sequence
\* add_image(A) accepted; add_image(A); remove_image(basename(A)); add_image(A):
\* step names the call of the sequence the last call was, of names the image A.
NoRun == [step |-> "none", of |-> <<>>]

\* the last call was add_image(image_path), which returned ret
RunAfterAdd(image_path, ret) ==
    IF last.run.step = "added" /\ last.run.of = image_path
    THEN [step |-> "added twice", of |-> image_path]
    ELSE IF last.run.step = "removed" /\ last.run.of = image_path
    THEN [step |-> "added again", of |-> image_path]
    ELSE IF ret THEN [step |-> "added", of |-> image_path]
    ELSE NoRun

\* the last call was remove_image(filename)
RunAfterRemove(filename) ==
    IF last.run.step = "added twice" /\ basename(last.run.of) = filename
    THEN [step |-> "removed", of |-> last.run.of]
    ELSE NoRun

\* What the caller observed: the operation, its arguments, the value returned,
\* whether the call changed the collection, the records a search ran over, and
\* how many times the call wrote the file.
\* encoded: the paths add_image gave to the image encoder.
\* dropped: a mutation has dropped a read cache that was present, and no search
\* has rebuilt it since.
Call(op, arg, ret, ok, scored, dropped, saves) ==
    [op |-> op, arg |-> arg, ret |-> ret, exc |-> "none", ok |-> ok, scored |-> scored,
     dropped |-> dropped, saves |-> saves, pre |-> Pre, run |-> NoRun, encoded |-> <<>>]

\* the state of the caller's record after __init__
Constructed ==
    [op |-> "init", arg |-> <<>>, ret |-> <<>>, exc |-> "none", ok |-> FALSE,
     scored |-> <<>>, dropped |-> FALSE, saves |-> 0,
     pre |-> [count |-> 0, loaded |-> FALSE], run |-> NoRun, encoded |-> <<>>]

\* the call raised exc and returned nothing
Raised(op, arg, exc) ==
    [op |-> op, arg |-> arg, ret |-> <<>>, exc |-> exc, ok |-> FALSE, scored |-> <<>>,
     dropped |-> last.dropped, saves |-> 0, pre |-> Pre, run |-> NoRun,
     encoded |-> <<>>]

DroppedBy(ok) == IF ok /\ vectors_cache # <<>> THEN TRUE ELSE last.dropped

\* a dict literal of the caller: a new object
NewDict(S, m) ==
    IF m = <<>> THEN [s |-> S, ret |-> None]
    ELSE With(Fresh(DOMAIN S.meta_heap), LAMBDA mid :
            [s |-> [S EXCEPT !.meta_heap = Put(@, mid, m[1])], ret |-> mid])

\* duplicate_threshold: the default 0.85, and 0.8
DuplicateThresholds == {Pct(85), Pct(80)}

\* <<check_duplicates, duplicate_threshold>>: the threshold is read only when
\* duplicates are checked
GuardChoices == {<<TRUE, t>> : t \in DuplicateThresholds} \cup {<<FALSE, Pct(85)>>}

EmptyStore ==
    [rec_heap |-> <<>>, meta_heap |-> <<>>, list_heap |-> <<>>,
     cache |-> None, cache_loaded |-> FALSE, file |-> <<>>, file_text |-> "complete",
     vectors_cache |-> <<>>, data_cache |-> None, peer |-> <<>>, saves |-> 0,
     fault |-> "none", exc |-> "none"]

\* __init__ on a storage location that does not exist yet: the file is created as []
Init ==
    /\ db \in {"VectorDB", "MultimodalDB"}
    /\ rec_heap = <<>>
    /\ meta_heap = <<>>
    /\ list_heap = <<>>
    /\ cache = None
    /\ cache_loaded = FALSE
    /\ file = <<>>
    /\ file_text = "complete"
    /\ vectors_cache = <<>>
    /\ data_cache = None
    /\ peer = <<>>
    /\ last = Constructed

\* the process ends and a new one opens the same storage location: __init__ on
\* an existing file
Reopen ==
    /\ last.op # "init"
    /\ Install([EmptyStore EXCEPT !.file = file, !.file_text = file_text, !.peer = peer])
    /\ last' = Constructed
    /\ UNCHANGED db

AddImage(paths, metas, skips) ==
    /\ db = "MultimodalDB"
    /\ \E image_path \in paths, m \in metas, skip_if_exists \in skips :
         \E d \in {NewDict(Cur, m)} :
         \E r \in {MultimodalDB_add_image(d.s, image_path, d.ret, skip_if_exists)} :
             /\ Len(r.s.file) <= MaxRecords
             /\ Install(r.s)
             /\ last' = [Call("add_image",
                              [image_path |-> image_path, metadata |-> m,
                               skip_if_exists |-> skip_if_exists],
                              r.ret, r.ret, <<>>, DroppedBy(r.ret), r.s.saves)
                         EXCEPT !.run = RunAfterAdd(image_path, r.ret),
                                !.encoded = r.encoded]
    /\ UNCHANGED db

AddFolder(folders, metas) ==
    /\ db = "MultimodalDB"
    /\ \E folder_path \in folders, m \in metas :
         \E d \in {NewDict(Cur, m)} :
         \E r \in {MultimodalDB_add_folder(d.s, folder_path, d.ret)} :
             /\ Len(r.s.file) <= MaxRecords
             /\ Install(r.s)
             /\ last' = Call("add_folder",
                             [folder_path |-> folder_path, metadata |-> m],
                             r.ret, r.ret.added > 0, <<>>, DroppedBy(r.ret.added > 0), r.s.saves)
    /\ UNCHANGED db

SearchByText(queries, top_ks, min_scores) ==
    /\ db = "MultimodalDB"
    /\ \E query \in queries, top_k \in top_ks, min_score \in min_scores :
         \E r \in {MultimodalDB_search_by_text(Cur, query, top_k, min_score)} :
             /\ Install(r.s)
             /\ last' = Call("search_by_text",
                             [query |-> query, top_k |-> top_k, min_score |-> min_score,
                              after_drop |-> last.dropped],
                             r.ret, FALSE, r.scored, FALSE, r.s.saves)
    /\ UNCHANGED db

SearchByImage(paths, top_ks, min_scores) ==
    /\ db = "MultimodalDB"
    /\ \E image_path \in paths, top_k \in top_ks, min_score \in min_scores :
         \E r \in {MultimodalDB_search_by_image(Cur, image_path, top_k, min_score)} :
             /\ Install(r.s)
             /\ last' = Call("search_by_image",
                             [image_path |-> image_path, top_k |-> top_k,
                              min_score |-> min_score, after_drop |-> last.dropped],
                             r.ret, FALSE, r.scored, FALSE, r.s.saves)
    /\ UNCHANGED db

RemoveImage ==
    /\ db = "MultimodalDB"
    /\ \E filename \in Filenames :
         \E r \in {MultimodalDB_remove_image(Cur, filename)} :
             /\ Install(r.s)
             /\ last' = [Call("remove_image", [filename |-> filename], r.ret, r.ret,
                              <<>>, DroppedBy(r.ret), r.s.saves)
                         EXCEPT !.run = RunAfterRemove(filename)]
    /\ UNCHANGED db

UpdateImageInfo ==
    /\ db = "MultimodalDB"
    /\ \E filename \in Filenames, extra_metadata \in Patches :
         \E r \in {MultimodalDB_update_image_info(Cur, filename, extra_metadata)} :
             /\ Install(r.s)
             /\ last' = Call("update_image_info",
                             [filename |-> filename, extra_metadata |-> extra_metadata],
                             r.ret, r.ret, <<>>, DroppedBy(r.ret), r.s.saves)
    /\ UNCHANGED db

Add(documents, guards) ==
    /\ db = "VectorDB"
    /\ \E doc \in documents, g \in guards :
         \E text \in {doc[1]}, m \in {doc[2]}, check_duplicates \in {g[1]},
            duplicate_threshold \in {g[2]} :
         \E d \in {NewDict(Cur, m)} :
         \E r \in {VectorDB_add(d.s, text, d.ret, check_duplicates, duplicate_threshold)} :
             /\ Len(r.s.file) <= MaxRecords
             /\ Install(r.s)
             /\ last' = Call("add",
                             [text |-> text, metadata |-> m,
                              check_duplicates |-> check_duplicates,
                              duplicate_threshold |-> duplicate_threshold,
                              guard |-> r.guard],
                             r.ret, r.ret, <<>>, DroppedBy(r.ret), r.s.saves)
    /\ UNCHANGED db

Search(queries, top_ks, dynamics, boostings, min_relevances) ==
    /\ db = "VectorDB"
    /\ \E query \in queries, top_k \in top_ks, use_dynamic_threshold \in dynamics,
          apply_boosting \in boostings, min_relevance \in min_relevances :
         \E r \in {VectorDB_search(Cur, query, top_k, use_dynamic_threshold,
                                  apply_boosting, min_relevance)} :
             /\ Install(r.s)
             /\ last' = Call("search",
                             [query |-> query, top_k |-> top_k,
                              use_dynamic_threshold |-> use_dynamic_threshold,
                              apply_boosting |-> apply_boosting,
                              min_relevance |-> min_relevance,
                              after_drop |-> last.dropped],
                             r.ret, FALSE, r.scored, FALSE, r.s.saves)
    /\ UNCHANGED db

StorageRemoveImage ==
    /\ db = "VectorDB"
    /\ \E filename \in {"x.jpg"} :
         \E r \in {Storage_remove_image(Cur, filename)} :
             /\ Install(r.s)
             /\ last' = IF r.exc # "none"
                        THEN Raised("Storage.remove_image", [filename |-> filename], r.exc)
                        ELSE Call("Storage.remove_image", [filename |-> filename],
                                  r.ret, r.ret, <<>>, last.dropped, r.s.saves)
    /\ UNCHANGED db

StorageUpdateImageInfo ==
    /\ db = "VectorDB"
    /\ \E filename \in {"x.jpg"}, extra_metadata \in Patches :
         \E r \in {Storage_update_image_info(Cur, filename, extra_metadata)} :
             /\ Install(r.s)
             /\ last' = IF r.exc # "none"
                        THEN Raised("Storage.update_image_info",
                                    [filename |-> filename, extra_metadata |-> extra_metadata],
                                    r.exc)
                        ELSE Call("Storage.update_image_info",
                                  [filename |-> filename, extra_metadata |-> extra_metadata],
                                  r.ret, r.ret, <<>>, last.dropped, r.s.saves)
    /\ UNCHANGED db

\* stats()["cache_active"] of either facade
cache_active == vectors_cache # <<>>

\* index.search called on the facade's index, with an embedding of the caller
IndexSearch(query_embs, top_ks, dynamics, min_relevances) ==
    /\ db = "VectorDB"
    /\ \E query_emb \in query_embs, top_k \in top_ks, use_dynamic_threshold \in dynamics,
          min_relevance \in min_relevances :
         \E r \in {Index_search(Cur, query_emb, top_k, <<>>, use_dynamic_threshold,
                               TRUE, min_relevance)} :
             /\ Install(r.s)
             /\ last' = Call("Index.search",
                             [query_emb |-> query_emb, top_k |-> top_k,
                              use_dynamic_threshold |-> use_dynamic_threshold,
                              min_relevance |-> min_relevance,
                              after_drop |-> last.dropped],
                             r.ret, FALSE, r.scored, FALSE, r.s.saves)
    /\ UNCHANGED db

ExistsSimilar(vectors, thresholds) ==
    /\ db = "VectorDB"
    /\ \E vector \in vectors, threshold \in thresholds :
         \E r \in {VectorDB_exists_similar(Cur, vector, threshold)} :
             /\ Install(r.s)
             /\ last' = Call("exists_similar", [vector |-> vector, threshold |-> threshold],
                             r.ret, FALSE, <<>>, last.dropped, r.s.saves)
    /\ UNCHANGED db

Next ==
    \/ Reopen
    \/ AddImage(ImagePaths, {<<>>}, {TRUE})
    \/ AddFolder(Folders, {<<m>> : m \in MetaArgs})
    \/ SearchByText({"cat"}, {MaxTopK}, {0})
    \/ SearchByImage({ImgAX}, {MaxTopK}, {0})
    \/ RemoveImage
    \/ UpdateImageInfo
    \/ Add(Documents, GuardChoices)
    \/ Search({TextCat}, {MaxTopK}, {TRUE}, {TRUE}, {0})
    \/ StorageRemoveImage
    \/ StorageUpdateImageInfo

Spec == Init /\ [][Next]_vars

(***************************************************************************)
(* The claims.  The collection is the sequence of record values; after a   *)
(* call it is read from the file, and Memory is what the store cache holds.*)
(***************************************************************************)
\* the metadata dict of a record value: {} when the record has none
MetaOf(v) == IF v.metadata = <<>> THEN {} ELSE v.metadata[1]

\* the collection as the store cache holds it
Memory == json_dump(Cur, cache)

\* the positions of the record values of f whose filename is key
Keyed(f, key) == {i \in 1..Len(f) : f[i].filename = key}

\* the positions of the record values of f the guard rejects text for
GuardHits(f, text, threshold) ==
    {i \in 1..Len(f) :
        cosine_similarity(Embeddings_encode(text), f[i].embedding) >= threshold}

\* the last call was a search whose query could be encoded
SearchEncoded ==
    \/ last.op = "search"
    \/ last.op = "search_by_text" /\ encode_text(last.arg.query) # <<>>
    \/ last.op = "search_by_image" /\ encode_image(last.arg.image_path) # <<>>

\* the result res of the last search is the record value v
ResultOf(res, v) ==
    IF last.op = "search" THEN res.text = v.text
    ELSE res.image_path = v.image_path /\ res.filename = v.filename

\* C1: a search made after any calls of the facade scores exactly the records
\* of the current collection in their current form (the loop runs over the
\* values the file and the store hold now), and every result carries the
\* current metadata of a record of the collection.
C1_CacheCoherency ==
    (SearchEncoded /\ file # <<>>) =>
        /\ last.scored = <<file>>
        /\ Memory = file
        /\ \A k \in 1..Len(last.ret) :
              \E i \in 1..Len(file) :
                  ResultOf(last.ret[k], file[i]) /\ last.ret[k].metadata = MetaOf(file[i])

\* a search that followed mutations which dropped a built read cache: it scored
\* two records and returned one with the updated metadata
C1_Witness ==
    /\ last.op = "search_by_text"
    /\ last.arg.after_drop
    /\ Len(file) >= 2
    /\ last.scored = <<file>>
    /\ \E k \in 1..Len(last.ret) : <<"tipo", "y">> \in last.ret[k].metadata

\* an add with check_duplicates at duplicate_threshold 0.85
GuardedAdd(l) ==
    l.op = "add" /\ l.arg.check_duplicates /\ l.arg.duplicate_threshold = Pct(85)

\* C2: when an add of a content with check_duplicates at 0.85 is accepted, an
\* immediately following such add of the same content is rejected, the match
\* reported is the record the first call stored (the last record, with that
\* content and score 1.0), and the collection holds one record of that content.
C2_DuplicateGuardIdempotence ==
    [][(/\ GuardedAdd(last) /\ last.ret
        /\ GuardedAdd(last') /\ last'.arg.text = last.arg.text)
       => /\ last'.ret = FALSE
          /\ last'.arg.guard[1].exists
          /\ last'.arg.guard[1].examined = Len(file)
          /\ last'.arg.guard[1].text = <<last.arg.text>>
          /\ last'.arg.guard[1].score = <<Scale>>
          /\ file' = file
          /\ Cardinality({i \in 1..Len(file') : file'[i].text = last.arg.text}) = 1]_vars

\* the second add of a content at 0.85 was rejected with the one record of that
\* content, the last of two, as the match
C2_Witness ==
    /\ GuardedAdd(last) /\ ~last.ret
    /\ Len(file) = 2
    /\ last.arg.guard[1].examined = 2
    /\ last.arg.guard[1].text = <<last.arg.text>>
    /\ file[2].text = last.arg.text

\* C3: the guard of add rejects iff some stored record has similarity >=
\* duplicate_threshold to the incoming embedding; on rejection it reports the
\* content and score of the first such record in collection order and has
\* examined no record after it; with no such record the add is accepted.
C3_GuardDecision ==
    [][(last'.op = "add" /\ last'.arg.guard # <<>>)
       => IF GuardHits(file, last'.arg.text, last'.arg.duplicate_threshold) = {}
          THEN /\ ~last'.arg.guard[1].exists
               /\ last'.arg.guard[1].score = <<>> /\ last'.arg.guard[1].text = <<>>
               /\ last'.ret = TRUE
          ELSE /\ last'.arg.guard[1].exists
               /\ last'.ret = FALSE
               /\ last'.arg.guard[1].examined =
                      MinOf(GuardHits(file, last'.arg.text, last'.arg.duplicate_threshold))
               /\ last'.arg.guard[1].text =
                      <<file[last'.arg.guard[1].examined].text>>
               /\ last'.arg.guard[1].score =
                      <<cosine_similarity(Embeddings_encode(last'.arg.text),
                                          file[last'.arg.guard[1].examined].embedding)>>]_vars

\* a rejection by a score equal to the threshold, of the first of two records
\* that reach it: the second, the content itself, was not examined
C3_Witness ==
    /\ last.op = "add" /\ ~last.ret /\ last.arg.guard # <<>>
    /\ last.arg.guard[1].score = <<last.arg.duplicate_threshold>>
    /\ last.arg.guard[1].examined = 1
    /\ Len(file) = 2
    /\ file[2].text = last.arg.text
    /\ last.arg.guard[1].text # <<last.arg.text>>

\* the step is an add the guard rejects, or an add_image of an indexed path
RejectedAdd ==
    \/ last'.op = "add" /\ last'.arg.guard # <<>> /\ last'.arg.guard[1].exists
    \/ /\ last'.op = "add_image" /\ last'.arg.skip_if_exists
       /\ \E i \in 1..Len(file) : file[i].absolute_path = abspath(last'.arg.image_path)

\* the objects of the program are the same, with the same contents
SameObjects ==
    UNCHANGED <<rec_heap, meta_heap, list_heap, cache, cache_loaded, file,
                vectors_cache, data_cache>>

\* nothing changes but the store cache, which is loaded with the collection of
\* the unchanged file if it was not loaded
SameButLoaded ==
    /\ UNCHANGED <<file, vectors_cache, data_cache>>
    /\ last'.saves = 0
    /\ IF cache_loaded THEN SameObjects
       ELSE cache_loaded' /\ json_dump(Cur', cache') = file

\* C4 as stated: a rejected add returns false and leaves the collection, the
\* file, the store cache and the facade read cache as they were.
C4_RejectedAddChangesNothing ==
    [][RejectedAdd => last'.ret = FALSE /\ SameObjects]_vars

\* C4, amended: a rejected add returns false, writes nothing and leaves the
\* collection, the file and the facade read cache as they were; the store
\* cache is as it was if it was loaded, and otherwise is loaded with the
\* collection of the file.
C4_RejectedAddLoadsOnly ==
    [][RejectedAdd => last'.ret = FALSE /\ SameButLoaded]_vars

\* a rejected add in a process that had not read the file yet
C4_Witness ==
    /\ last.op = "add" /\ ~last.ret /\ last.arg.guard # <<>>
    /\ ~last.pre.loaded
    /\ cache_loaded /\ Memory = file /\ Len(file) >= 1

\* C5: an accepted add appends one record at the end: the count grows by one,
\* the records stored before keep their positions and contents, and the file
\* holds the sequence the store holds in memory.
C5_AcceptedAddAppends ==
    [][(last'.op \in {"add", "add_image"} /\ last'.ret = TRUE)
       => /\ Len(file') = Len(file) + 1
          /\ SubSeq(file', 1, Len(file)) = file
          /\ IF last'.op = "add"
             THEN /\ file'[Len(file')].text = last'.arg.text
                  /\ file'[Len(file')].embedding = Embeddings_encode(last'.arg.text)
             ELSE /\ file'[Len(file')].absolute_path = abspath(last'.arg.image_path)
                  /\ <<file'[Len(file')].embedding>> = encode_image(last'.arg.image_path)
          /\ file'[Len(file')].metadata = last'.arg.metadata
          /\ last'.saves = 1
          /\ json_dump(Cur', cache') = file']_vars

\* an accepted add_image to a collection of two records
C5_Witness ==
    /\ last.op = "add_image" /\ last.ret
    /\ last.pre.count = 2 /\ Len(file) = 3
    /\ file[3].absolute_path = abspath(last.arg.image_path)

\* C6 as stated: a successful update_image_info changes the metadata of the
\* first record with the filename and of no other record, in the file and in
\* memory.
C6_UpdateChangesOnlyFirstMatch ==
    [][(last'.op = "update_image_info" /\ last'.ret = TRUE)
       => \A i \in 1..Len(file) :
             i # MinOf(Keyed(file, last'.arg.filename))
                => /\ file'[i].metadata = file[i].metadata
                   /\ json_dump(Cur', cache')[i].metadata = file[i].metadata]_vars

\* C7: a successful update_image_info merges: the metadata of the first record
\* with the filename has every key of the patch with the patch's value and
\* every other key it had with the value it had; a record that had no metadata
\* gets the patch.
C7_UpdateMerges ==
    [][(last'.op = "update_image_info" /\ last'.ret = TRUE)
       => /\ Keyed(file, last'.arg.filename) # {}
          /\ MetaOf(file'[MinOf(Keyed(file, last'.arg.filename))])
                = DictUpdate(MetaOf(file[MinOf(Keyed(file, last'.arg.filename))]),
                             last'.arg.extra_metadata)
          /\ \A p \in last'.arg.extra_metadata :
                p \in MetaOf(file'[MinOf(Keyed(file, last'.arg.filename))])
          /\ \A p \in MetaOf(file[MinOf(Keyed(file, last'.arg.filename))]) :
                p[1] \notin DictKeys(last'.arg.extra_metadata)
                   => p \in MetaOf(file'[MinOf(Keyed(file, last'.arg.filename))])
          /\ file[MinOf(Keyed(file, last'.arg.filename))].metadata = <<>>
                => file'[MinOf(Keyed(file, last'.arg.filename))].metadata
                      = <<last'.arg.extra_metadata>>
          /\ json_dump(Cur', cache') = file']_vars

\* an updated record that keeps a key the patch does not have, has a key the
\* patch overwrote and a key the patch added
C7_Witness ==
    /\ last.op = "update_image_info" /\ last.ret
    /\ \E i \in 1..Len(file) :
          /\ file[i].filename = last.arg.filename
          /\ MetaOf(file[i]) = {<<"src", "d">>, <<"tipo", "y">>, <<"status", "v">>}

\* C8: remove_image of a filename some record has removes every record with
\* that filename, keeps the others in their order, writes the result to the
\* file and returns true.
C8_RemoveDeletesEveryMatch ==
    [][(last'.op = "remove_image" /\ Keyed(file, last'.arg.filename) # {})
       => /\ last'.ret = TRUE
          /\ file' = SelectSeq(file, LAMBDA v : v.filename # last'.arg.filename)
          /\ last'.saves = 1
          /\ json_dump(Cur', cache') = file']_vars

\* a remove that deleted two records of three (a/x.jpg and b/x.jpg)
C8_Witness ==
    /\ last.op = "remove_image" /\ last.ret
    /\ last.pre.count = 3 /\ Len(file) = 1
    /\ file[1].filename # last.arg.filename

\* the step is a remove_image of a filename no record has
RemoveOfNone ==
    last'.op = "remove_image" /\ Keyed(file, last'.arg.filename) = {}

\* C9 as stated: a remove_image with no match returns false, writes nothing,
\* and leaves the collection, the store cache and the facade read cache as they
\* were.
C9_RemoveOfNoneChangesNothing ==
    [][RemoveOfNone => last'.ret = FALSE /\ last'.saves = 0 /\ SameObjects]_vars

\* C9, amended: a remove_image with no match returns false, writes nothing and
\* leaves the collection, the file and the facade read cache as they were; the
\* store cache is as it was if it was loaded, and otherwise is loaded with the
\* collection of the file.
C9_RemoveOfNoneLoadsOnly ==
    [][RemoveOfNone => last'.ret = FALSE /\ SameButLoaded]_vars

\* a remove_image with no match while the facade holds a read cache of two
\* records
C9_Witness ==
    /\ last.op = "remove_image" /\ ~last.ret
    /\ vectors_cache # <<>> /\ Len(vectors_cache[1]) = 2
    /\ Keyed(file, last.arg.filename) = {}

\* the remove and update operations of the facades and of the text store
KeyedOps ==
    {"remove_image", "update_image_info", "Storage.remove_image",
     "Storage.update_image_info"}

\* C10 as stated: a remove or update of a key no record has returns false and
\* does not raise.
C10_NotFoundIsBoolean ==
    (last.op \in KeyedOps /\ ~last.ok) => last.exc = "none" /\ last.ret = FALSE

\* the positions of the record values of f stored for the image image_path
RecordsOf(f, image_path) ==
    {i \in 1..Len(f) : f[i].absolute_path = abspath(image_path)}

\* C11: in every run add_image(A) accepted, add_image(A), remove_image(filename
\* of A), add_image(A) of consecutive calls, the second call is rejected and
\* leaves the collection with its one record of A as it was, the remove
\* returns true and leaves exists(A) false, and the last add is accepted and
\* leaves exactly one record of A.
C11_ScenarioC ==
    [][/\ last'.run.step = "added twice"
          => /\ last'.ret = FALSE
             /\ file' = file
             /\ Cardinality(RecordsOf(file', last'.run.of)) = 1
       /\ last'.run.step = "removed"
          => /\ last'.ret = TRUE
             /\ ~ImageStorage_exists(Cur', last'.run.of).ret
             /\ RecordsOf(file', last'.run.of) = {}
       /\ last'.run.step = "added again"
          => /\ last'.ret = TRUE
             /\ Cardinality(RecordsOf(file', last'.run.of)) = 1
             /\ RecordsOf(file', last'.run.of) = {Len(file')}]_vars

\* the end of such a run, in a collection that holds another record as well
C11_Witness ==
    /\ last.run.step = "added again" /\ last.ret
    /\ Len(file) = 2
    /\ RecordsOf(file, last.run.of) = {2}

(***************************************************************************)
(* The searches with all their parameters, over small collections.         *)
(***************************************************************************)
\* the documents added without the duplicate guard: two of them have the same
\* normalized text, two the same embedding
SearchDocuments ==
    {<<TextCat, <<>> >>, <<TextCat2, <<>> >>,
     <<TextCatDog, << {<<"category", "animal">>} >> >>}

SearchQueries == {TextCat2, TextDog, TextOx}

TopKs == 0..MaxTopK

\* min_relevance and min_score: the default 0.0, and two values between the
\* scores the model's embeddings give
MinRelevances == {0, Pct(65), Pct(85)}

\* embeddings the caller passes to the index: one of the stored dimension, one
\* longer and one shorter
ProbeVectors == {<<4, 3>>, <<3, 4, 0>>, <<5>>}

SearchNext ==
    \/ Add(SearchDocuments, {<<FALSE, Pct(85)>>})
    \/ Search(SearchQueries, TopKs, {TRUE}, {TRUE}, {0})
    \/ Search(SearchQueries, {MaxTopK}, BOOLEAN, BOOLEAN, {0})
    \/ Search(SearchQueries, {MaxTopK}, {TRUE}, {TRUE}, MinRelevances)
    \/ IndexSearch(ProbeVectors, {MaxTopK}, BOOLEAN, {0})
    \/ ExistsSimilar(ProbeVectors, {Pct(85)})
    \/ AddImage({ImgAX, ImgAY, ImgBY}, {<<>>}, {TRUE})
    \/ RemoveImage
    \/ SearchByText(QueryTexts, TopKs, {0, Pct(65)})
    \/ SearchByImage({ImgAX, ImgBX, ImgBad}, TopKs, {0, Pct(65)})

SearchSpec == Init /\ [][SearchNext]_vars

\* the cosine scores of the last search: one per record it ran over, in the
\* order of the collection
Scores ==
    [i \in 1..Len(last.scored[1]) |->
        cosine_similarity(Embeddings_encode(last.arg.query), last.scored[1][i].embedding)]

\* a facade search that got as far as scoring the collection
Scored == last.op = "search" /\ last.scored # <<>>

\* score >= mean - 0.5 * std for n scores of sum sum and sum of squares sumsq:
\* n * (mean - score) = sum - n * score and n * std = sqrt(n * sumsq - sum^2)
AtLeastMeanMinusHalfStd(score, n, sum, sumsq) ==
    \/ sum - n * score <= 0
    \/ 4 * (sum - n * score) * (sum - n * score) <= n * sumsq - sum * sum

\* score >= min(max(0.2, mean - 0.5 * std), 0.6) for the mean and std of scores
AtLeastAdaptive(score, scores) ==
    \/ score >= Pct(60)
    \/ /\ score >= Pct(20)
       /\ AtLeastMeanMinusHalfStd(score, Len(scores), SumTo(scores, Len(scores)),
                                  SumTo([i \in 1..Len(scores) |-> scores[i] * scores[i]],
                                        Len(scores)))

\* score >= the threshold in force in the last search
AtLeastThreshold(score) ==
    IF last.arg.use_dynamic_threshold THEN AtLeastAdaptive(score, Scores)
    ELSE score >= Pct(45)

\* C12: every result of a search is a record of the collection whose cosine
\* score, before boosting, is at least the threshold in force (0.45, or the
\* adaptive one) and at least min_relevance; its original_score is that score
\* and its score is the boost of it, so boosting comes after the filter.
C12_ReturnedPassedFilters ==
    Scored =>
        \A k \in 1..Len(last.ret) :
            \E i \in 1..Len(Scores) :
                /\ last.scored[1][i].text = last.ret[k].text
                /\ last.ret[k].original_score = Scores[i]
                /\ AtLeastThreshold(Scores[i])
                /\ Scores[i] >= last.arg.min_relevance
                /\ last.ret[k].score =
                       IF last.arg.apply_boosting
                       THEN Index_apply_boosting(last.arg.query, last.ret[k].text, Scores[i])
                       ELSE Scores[i]

\* a search with the adaptive threshold and min_relevance above 0 that returned
\* a boosted record and dropped one that passed the threshold for min_relevance
C12_Witness ==
    /\ Scored /\ last.arg.min_relevance > 0 /\ last.arg.use_dynamic_threshold
    /\ \E k \in 1..Len(last.ret) : last.ret[k].score > last.ret[k].original_score
    /\ \E i \in 1..Len(Scores) :
           AtLeastThreshold(Scores[i]) /\ Scores[i] < last.arg.min_relevance

\* the scores a threshold is compared with: the hundredths from 0 to 1
ProbeScores == {Pct(p) : p \in 0..100}

\* the adaptive threshold of the last search, computed as the search does from
\* the scores of all the records of the collection
AdaptiveThreshold == Index_calculate_dynamic_threshold(Scores)

\* C13: the adaptive threshold of a search of a non-empty collection is
\* min(max(0.2, mean - 0.5 * std), 0.6) for the mean and the standard deviation
\* of the cosine scores of all its records: every score below 0.2 is below it,
\* no score from 0.6 on is, and a score between is below it exactly when it is
\* below mean - 0.5 * std.
C13_AdaptiveThresholdClamped ==
    (Scored /\ last.arg.use_dynamic_threshold) =>
        /\ Len(Scores) = Len(file)
        /\ \A v \in ProbeScores :
               /\ v < Pct(20) => ScoreBelow(v, AdaptiveThreshold)
               /\ v >= Pct(60) => ~ScoreBelow(v, AdaptiveThreshold)
               /\ (Pct(20) <= v /\ v < Pct(60))
                  => (ScoreBelow(v, AdaptiveThreshold)
                      <=> ~AtLeastMeanMinusHalfStd(
                              v, Len(Scores), SumTo(Scores, Len(Scores)),
                              SumTo([i \in 1..Len(Scores) |-> Scores[i] * Scores[i]],
                                    Len(Scores))))

\* a search whose adaptive threshold lies strictly between the two limits
C13_Witness ==
    /\ Scored /\ last.arg.use_dynamic_threshold
    /\ ScoreBelow(Pct(21), AdaptiveThreshold)
    /\ ~ScoreBelow(Pct(59), AdaptiveThreshold)

\* the result the last search would have had with min_relevance m: the same
\* call on the state it left, whose collection it did not change
SameSearchWith(m) ==
    VectorDB_search(Cur, last.arg.query, last.arg.top_k, last.arg.use_dynamic_threshold,
                    last.arg.apply_boosting, m).ret

Passed(i) == AtLeastThreshold(Scores[i]) /\ Scores[i] >= last.arg.min_relevance

\* the positions of the records that passed with the normalized text of text
PassedAs(text) ==
    {i \in 1..Len(Scores) :
        Passed(i) /\ normalize_text(last.scored[1][i].text) = normalize_text(text)}

\* C15: no two results of a text search have the same normalized text, and a
\* result is the first record of the collection, among those that passed the
\* filters, with its normalized text.
C15_OneResultPerNormalizedText ==
    Scored =>
        /\ \A k, l \in 1..Len(last.ret) :
               normalize_text(last.ret[k].text) = normalize_text(last.ret[l].text) => k = l
        /\ \A k \in 1..Len(last.ret) :
               /\ PassedAs(last.ret[k].text) # {}
               /\ last.ret[k].text = last.scored[1][MinOf(PassedAs(last.ret[k].text))].text
               /\ last.ret[k].original_score = Scores[MinOf(PassedAs(last.ret[k].text))]

\* a search that returned a record and left out a later one of the same
\* normalized text, a different text and a higher score, which had passed
C15_Witness ==
    /\ Scored
    /\ \E k \in 1..Len(last.ret) :
           \E j \in PassedAs(last.ret[k].text) :
               /\ last.scored[1][j].text # last.ret[k].text
               /\ Scores[j] > last.ret[k].original_score

\* the positions of the records the loop of the last search emitted: the first
\* that passed for each normalized text
Accepted == {i \in 1..Len(Scores) : Passed(i) /\ i = MinOf(PassedAs(last.scored[1][i].text))}

\* the final score of the record at position i in the last search
FinalScore(i) ==
    IF last.arg.apply_boosting
    THEN Index_apply_boosting(last.arg.query, last.scored[1][i].text, Scores[i])
    ELSE Scores[i]

\* the embedding an image search compares the records with
ImageQuery ==
    IF last.op = "search_by_text" THEN encode_text(last.arg.query)[1]
    ELSE encode_image(last.arg.image_path)[1]

ImageScore(i) == np_cosine_similarity(ImageQuery, last.scored[1][i].embedding)

\* the positions of the records the loop of the last image search emitted
ImageAccepted ==
    {i \in 1..Len(last.scored[1]) :
        /\ ImageScore(i) >= last.arg.min_score
        /\ last.op = "search_by_image"
           => last.scored[1][i].absolute_path # abspath(last.arg.image_path)}

\* a search of either facade that got as far as its loop
Ranked == SearchEncoded /\ last.scored # <<>>

Emitted == IF last.op = "search" THEN Accepted ELSE ImageAccepted

Rank(i) == IF last.op = "search" THEN FinalScore(i) ELSE ImageScore(i)

\* the record at j comes before the one at i in the order of the results
Before(j, i) == Rank(j) > Rank(i) \/ (Rank(j) = Rank(i) /\ j < i)

\* C16: the results are the emitted records in descending order of final
\* score, records of equal score in the order of the collection, cut to the
\* first top_k: result k is the emitted record that k - 1 others come before,
\* and the list has min(top_k, emitted) entries.
C16_SortedStableCut ==
    Ranked =>
        /\ Len(last.ret) = IF last.arg.top_k < Cardinality(Emitted) THEN last.arg.top_k
                           ELSE Cardinality(Emitted)
        /\ \A k \in 1..Len(last.ret) :
               \E i \in Emitted :
                   /\ Cardinality({j \in Emitted : Before(j, i)}) = k - 1
                   /\ ResultOf(last.ret[k], last.scored[1][i])
                   /\ last.ret[k].score = Rank(i)
        /\ \A k \in 1..(Len(last.ret) - 1) : last.ret[k].score >= last.ret[k + 1].score

\* a search with top_k 1 that emitted two records of equal final score and
\* returned the one that comes first in the collection
C16_Witness ==
    /\ Scored
    /\ Len(last.ret) = 1 /\ Cardinality(Emitted) = 2
    /\ \A i \in Emitted : Rank(i) = last.ret[1].score
    /\ \E i \in Emitted : last.scored[1][i].text # last.ret[1].text

\* the keywords the last search's query and the result res share, and all of them
Shared(res) == extract_keywords(last.arg.query) \cap extract_keywords(res.text)

Either(res) == extract_keywords(last.arg.query) \cup extract_keywords(res.text)

\* score = original_score + (shared / either) * 0.15, without rounding
ExactlyBoosted(res) ==
    (res.score - res.original_score) * Cardinality(Either(res))
        = Cardinality(Shared(res)) * Pct(15)

SearchOps == {"search", "Index.search", "search_by_text", "search_by_image"}

\* C18: a search of an empty collection returns the empty list and raises
\* nothing, and returns before it scores any record or computes a threshold
\* (scored is <<>>), whatever its query and flags; so for Index.search and the
\* facade's search, for search_by_text and for search_by_image, also when the
\* collection has just become empty by a removal.
C18_EmptyCollectionEmptyResult ==
    (last.op \in SearchOps /\ last.pre.count = 0) =>
        /\ last.exc = "none"
        /\ last.ret = <<>>
        /\ last.scored = <<>>
        /\ file = <<>>

\* the first image search after the removal that emptied a collection a
\* search had cached
C18_Witness ==
    /\ last.op \in {"search_by_text", "search_by_image"}
    /\ last.pre.count = 0
    /\ last.arg.after_drop
    /\ last.ret = <<>>

\* the vector the caller passed to the last call of the index or of the guard
Incoming == IF last.op = "Index.search" THEN last.arg.query_emb ELSE last.arg.vector

\* the last call compared a vector with a stored embedding of another length
Mismatched ==
    /\ last.op \in {"Index.search", "exists_similar"}
    /\ \E i \in 1..Len(file) : Len(file[i].embedding) # Len(Incoming)

\* C19 as stated: a search or a duplicate check with a vector whose length
\* differs from that of the stored embeddings fails with DimensionMismatch and
\* produces no result and no decision.
C19_MismatchRaises ==
    Mismatched => last.exc = "DimensionMismatch" /\ last.ret = <<>>

\* the step is a search of the text facade or of its index
FacadeSearch == last'.op \in {"search", "Index.search"}

\* the step repeats the call before it with the same arguments
Repeats ==
    /\ last.op = last'.op
    /\ [last.arg EXCEPT !.after_drop = FALSE] = [last'.arg EXCEPT !.after_drop = FALSE]

\* nothing changes but the caches: the file is as it was and is not written, a
\* cache that was present keeps its contents, and one that was absent holds
\* the collection of the file
OnlyCachesPopulated ==
    /\ file' = file
    /\ last'.saves = 0
    /\ cache_loaded' /\ json_dump(Cur', cache') = file
    /\ cache_loaded => json_dump(Cur, cache) = file
    /\ vectors_cache' = << [i \in 1..Len(file) |-> file[i].embedding] >>
    /\ json_dump(Cur', data_cache') = file
    /\ vectors_cache # <<>> => vectors_cache' = vectors_cache /\ json_dump(Cur, data_cache) = file

\* C20: a search changes nothing but the read caches, which it fills with the
\* collection of the file when they are absent; and a search that repeats the
\* call before it returns the same list of records with the same scores,
\* whether the first of the two found the read cache absent or present.
C20_SearchDeterministic ==
    [][FacadeSearch =>
          /\ OnlyCachesPopulated
          /\ Repeats => last'.ret = last.ret /\ last'.scored = last.scored]_vars

\* a search that found the read cache dropped by an add and returned two
\* results of different scores, which the same call on the state it left
\* returns again
C20_Witness ==
    /\ last.op = "search" /\ last.arg.after_drop
    /\ Len(last.ret) = 2 /\ last.ret[1].score > last.ret[2].score
    /\ vectors_cache # <<>>
    /\ SameSearchWith(last.arg.min_relevance) = last.ret

\* the last call was add_image for an image no record is stored for and the
\* encoder could not read
EncodeFailed ==
    /\ last.op = "add_image"
    /\ encode_image(last.arg.image_path) = <<>>
    /\ RecordsOf(file, last.arg.image_path) = {}

\* what the caller of add_image(image_path) observes in the current state
AddImageOutcome(image_path) ==
    [ret |-> MultimodalDB_add_image(Cur, image_path, None, TRUE).ret, exc |-> "none"]

\* C21 as stated: what the caller of add_image observes when the embedding
\* could not be produced differs from what it observes when the image is
\* rejected as already indexed.
C21_RejectionDiffersFromFailure ==
    EncodeFailed =>
        \A image_path \in ImagePaths :
            RecordsOf(file, image_path) # {}
            => AddImageOutcome(image_path) # [ret |-> last.ret, exc |-> last.exc]

\* the step is add_image for an image no record is stored for and the encoder
\* cannot read
FailedAddImage ==
    /\ last'.op = "add_image"
    /\ encode_image(last'.arg.image_path) = <<>>
    /\ RecordsOf(file, last'.arg.image_path) = {}

\* the files add_folder discovers in the folder of the step
Discovered == image_files(last'.arg.folder_path)

\* the positions in Discovered of the files that fail: not stored and not
\* readable by the encoder
Failing ==
    {i \in 1..Len(Discovered) :
        encode_image(Discovered[i]) = <<>> /\ RecordsOf(file, Discovered[i]) = {}}

\* add_folder accounts for every discovered file, counts the failing ones
\* under errors and stores every readable one, those after a failure included
FolderAccounted ==
    /\ last'.exc = "none"
    /\ last'.ret.added + last'.ret.skipped + last'.ret.errors = Len(Discovered)
    /\ last'.ret.errors = Cardinality(Failing)
    /\ \A i \in 1..Len(Discovered) :
           encode_image(Discovered[i]) # <<>> => RecordsOf(file', Discovered[i]) # {}

\* C22 as stated: a failed add_image returns false, raises nothing and leaves
\* the collection, the file and the caches as they were; add_folder goes on
\* after a failure and added + skipped + errors is the number of discovered
\* files, the failed ones under errors.
C22_FailedItemChangesNothing ==
    [][/\ FailedAddImage => last'.ret = FALSE /\ last'.exc = "none" /\ SameObjects
       /\ last'.op = "add_folder" => FolderAccounted]_vars

\* C22, amended: as stated, but the store cache, if it was not loaded, is
\* loaded by the failed add_image with the collection of the unchanged file.
C22_FailedItemLoadsOnly ==
    [][/\ FailedAddImage => last'.ret = FALSE /\ last'.exc = "none" /\ SameButLoaded
       /\ last'.op = "add_folder" => FolderAccounted]_vars

\* add_folder of a folder whose second file fails: the first and the third
\* are stored and the failure is counted
C22_Witness ==
    /\ last.op = "add_folder"
    /\ last.ret = [added |-> 2, skipped |-> 0, errors |-> 1]
    /\ Len(file) = 2

\* the calls that change the collection through a facade, and its searches
FacadeWrites == {"add", "add_image", "remove_image", "update_image_info"}
FacadeSearches == {"search", "search_by_text", "search_by_image"}

\* C23: after a successful add, remove or metadata update through a facade
\* cache_active is false; the read cache goes from absent to present only in
\* a search; and after a search cache_active is true, whatever the collection.
C23_CacheDroppedUntilSearch ==
    [][/\ last'.op \in FacadeWrites /\ last'.ok => ~cache_active'
       /\ ~cache_active /\ cache_active' => last'.op \in FacadeSearches
       /\ last'.op \in FacadeSearches /\ last'.exc = "none" => cache_active']_vars

\* a search of the collection a removal has emptied, the removal having
\* dropped a read cache: the cache is present again, and empty
C23_Witness ==
    /\ last.op = "search_by_text"
    /\ last.arg.after_drop
    /\ file = <<>>
    /\ cache_active
    /\ vectors_cache[1] = <<>>

(***************************************************************************)
(* The store on its own: a caller that holds a store handle and calls its  *)
(* operations, Storage for the text store and ImageStorage for the image   *)
(* store.  Every operation but save and clear_cache starts with load(),    *)
(* and ends there when load() raises.                                      *)
(***************************************************************************)
\* load() would have to parse a file whose text is not complete
Unreadable(S) == ~S.cache_loaded /\ S.file_text # "complete"

\* what the caller observed of a store call that ended in state r.s
StoreOutcome(op, arg, r, ret, ok) ==
    IF r.s.exc # "none" THEN Raised(op, arg, r.s.exc)
    ELSE Call(op, arg, ret, ok, <<>>, last.dropped, r.s.saves)

\* the list a caller passes to save: a new empty list, or the list load()
\* gave it
SaveArgs == {"new list", "loaded list"}

\* the file and the cached list hold MaxRecords records at most (the cached
\* list outgrows the file when writes fail)
Bounded(S) ==
    /\ Len(S.file) <= MaxRecords
    /\ S.cache # None => Len(S.list_heap[S.cache]) <= MaxRecords

StoreLoad ==
    /\ \E r \in {IF db = "VectorDB" THEN Storage_load(Cur) ELSE ImageStorage_load(Cur)} :
         /\ Install(r.s)
         /\ last' = IF r.s.exc # "none" THEN Raised("load", <<>>, r.s.exc)
                    ELSE Call("load", <<>>, json_dump(r.s, r.ret), FALSE, <<>>,
                              last.dropped, 0)
    /\ UNCHANGED db

StoreCount ==
    /\ \E r \in {IF db = "VectorDB" THEN Storage_count(Cur) ELSE ImageStorage_count(Cur)} :
         /\ Install(r.s)
         /\ last' = StoreOutcome("count", <<>>, r, r.ret, FALSE)
    /\ UNCHANGED db

StoreClearCache ==
    /\ cache_loaded
    /\ Install(IF db = "VectorDB" THEN Storage_clear_cache(Cur)
               ELSE ImageStorage_clear_cache(Cur))
    /\ last' = Call("clear_cache", <<>>, <<>>, FALSE, <<>>, last.dropped, 0)
    /\ UNCHANGED db

StoreSave(faults) ==
    /\ \E data \in SaveArgs, fault \in faults :
         /\ data = "loaded list" => cache_loaded
         /\ \E d \in {IF data = "loaded list" THEN [s |-> Cur, ret |-> cache]
                      ELSE json_load(Cur, <<>>)} :
            \E s \in {IF db = "VectorDB"
                      THEN Storage_save([d.s EXCEPT !.fault = fault], d.ret)
                      ELSE ImageStorage_save([d.s EXCEPT !.fault = fault], d.ret)} :
              /\ Install(s)
              /\ last' = StoreOutcome("save", [data |-> data], [s |-> s], <<>>, TRUE)
    /\ UNCHANGED db

StoreAddText(documents, faults) ==
    /\ db = "VectorDB"
    /\ \E doc \in documents, fault \in faults :
         \E d \in {NewDict([Cur EXCEPT !.fault = fault], doc[2])} :
         \E r \in {IF Unreadable(Cur) THEN Storage_load(Cur)
                   ELSE [s |-> Storage_add(d.s, doc[1], Embeddings_encode(doc[1]), d.ret)]} :
             /\ Bounded(r.s)
             /\ Install(r.s)
             /\ last' = StoreOutcome("Storage.add", [text |-> doc[1], metadata |-> doc[2]],
                                     r, <<>>, TRUE)
    /\ UNCHANGED db

StoreAddImage(paths, metas, faults) ==
    /\ db = "MultimodalDB"
    /\ \E image_path \in paths, m \in metas, fault \in faults :
         \E d \in {NewDict([Cur EXCEPT !.fault = fault], m)} :
         \E r \in {IF Unreadable(Cur) THEN ImageStorage_load(Cur)
                   ELSE [s |-> ImageStorage_add(d.s, image_path,
                                                encode_image(image_path)[1], d.ret)]} :
             /\ Bounded(r.s)
             /\ Install(r.s)
             /\ last' = StoreOutcome("ImageStorage.add",
                                     [image_path |-> image_path, metadata |-> m],
                                     r, <<>>, TRUE)
    /\ UNCHANGED db

StoreExists(paths) ==
    /\ db = "MultimodalDB"
    /\ \E image_path \in paths :
         \E r \in {IF Unreadable(Cur) THEN ImageStorage_load(Cur)
                   ELSE ImageStorage_exists(Cur, image_path)} :
             /\ Install(r.s)
             /\ last' = StoreOutcome("exists", [image_path |-> image_path], r, r.ret, FALSE)
    /\ UNCHANGED db

StoreDelete(faults) ==
    /\ db = "MultimodalDB"
    /\ \E filename \in Filenames, fault \in faults :
         \E r \in {IF Unreadable(Cur) THEN ImageStorage_load(Cur)
                   ELSE ImageStorage_delete([Cur EXCEPT !.fault = fault], filename)} :
             /\ Install(r.s)
             /\ last' = StoreOutcome("delete", [filename |-> filename], r, r.ret, r.ret)
    /\ UNCHANGED db

StoreUpdateMetadata(faults) ==
    /\ db = "MultimodalDB"
    /\ \E filename \in Filenames, new_metadata \in Patches, fault \in faults :
         \E r \in {IF Unreadable(Cur) THEN ImageStorage_load(Cur)
                   ELSE ImageStorage_update_metadata([Cur EXCEPT !.fault = fault],
                                                     filename, new_metadata)} :
             /\ Install(r.s)
             /\ last' = StoreOutcome("update_metadata",
                                     [filename |-> filename, new_metadata |-> new_metadata],
                                     r, r.ret, r.ret)
    /\ UNCHANGED db

\* the texts and the images the caller of the store adds
StoreDocuments == {<<TextCat, <<>> >>, <<TextDog, << {<<"category", "animal">>} >> >>}
StoreImages == {ImgAX, ImgAY}

\* calls that complete
StoreNext ==
    \/ StoreLoad
    \/ StoreCount
    \/ StoreClearCache
    \/ StoreSave({"none"})
    \/ StoreAddText(StoreDocuments, {"none"})
    \/ StoreAddImage(StoreImages, {<<>>} \cup {<<m>> : m \in MetaArgs}, {"none"})
    \/ StoreExists(StoreImages)
    \/ StoreDelete({"none"})
    \/ StoreUpdateMetadata({"none"})

StoreSpec == Init /\ [][StoreNext]_vars

\* calls whose write may fail, and a new process opening what they left
FaultNext ==
    \/ Reopen
    \/ StoreLoad
    \/ StoreCount
    \/ StoreClearCache
    \/ StoreSave({"none"} \cup WriteFaults)
    \/ StoreAddText(StoreDocuments, {"none"} \cup WriteFaults)
    \/ StoreAddImage(StoreImages, {<<>>}, {"none"} \cup WriteFaults)
    \/ StoreExists(StoreImages)
    \/ StoreDelete({"none"} \cup WriteFaults)
    \/ StoreUpdateMetadata({"none"} \cup WriteFaults)

FaultSpec == Init /\ [][FaultNext]_vars

\* C24: whenever the store cache is marked loaded it holds the collection
\* encoded in the file, so that count() returns the number of records of the
\* file and load() its collection; calls that complete do not damage the file.
C24_LoadedCacheIsFile ==
    /\ file_text = "complete"
    /\ cache_loaded => Memory = file
    /\ last.op = "count" => last.ret = Len(file)
    /\ last.op = "load" => last.ret = file

\* a handle whose cache held a collection that was not empty has saved a new
\* empty list: file and cache are the empty collection
C24_Witness ==
    /\ last.op = "save"
    /\ last.arg.data = "new list"
    /\ last.pre.count > 0
    /\ last.pre.loaded
    /\ cache_loaded
    /\ file = <<>>

\* the store operations C25 is about
StoreWrites == {"Storage.add", "ImageStorage.add", "update_metadata"}

\* the file is whole and the store cache, if loaded, holds its collection:
\* the last collection saved
Consistent == file_text = "complete" /\ (cache_loaded => Memory = file)

\* C25: when the write of an add or of an update_metadata fails, the caller
\* gets the error, and the collection the handle holds in memory is the one
\* saved last, which is what a later load, count, exists or scan reads.
C25_FailedWriteLeavesSaved ==
    [][last'.op \in StoreWrites /\ last'.exc = "OSError" /\ Consistent
       => (cache_loaded' => json_dump(Cur', cache') = file)]_vars

\* C26: the file holds a complete collection at every point, during a save
\* that fails or is interrupted too: the one it held before the save, or the
\* one being saved, and after a save that completed the file and the store
\* cache both hold the saved collection.
C26_SaveAtomic ==
    [][/\ file_text' = "complete"
       /\ last'.op = "save" /\ last'.exc # "none" => file' = file
       /\ last'.op = "save" /\ last'.exc = "none"
          => cache_loaded' /\ json_dump(Cur', cache') = file']_vars

\* the store operations that start with load()
StoreReads ==
    {"load", "count", "exists", "Storage.add", "ImageStorage.add", "delete", "update_metadata"}

\* C27: load on a file that cannot be parsed, alone or as the first step of
\* another operation, raises to the caller, returns nothing, leaves the store
\* cache unloaded and leaves the file as it is.
C27_UnparsableLoadRaises ==
    [][last'.op \in StoreReads /\ Unreadable(Cur)
       => /\ last'.exc = "JSONDecodeError"
          /\ last'.ret = <<>>
          /\ ~cache_loaded'
          /\ SameObjects
          /\ UNCHANGED file_text]_vars

\* load has raised on the file an unfinished write left
C27_Witness ==
    /\ last.op = "load"
    /\ last.exc = "JSONDecodeError"
    /\ file_text = "partial"
    /\ Len(file) > 0
    /\ ~cache_loaded

(***************************************************************************)
(* Two processes on one storage location.  Each has its own facade and     *)
(* store handle, with its own objects; they share the file.  A call runs   *)
(* to completion in its process; peer holds the process that is not        *)
(* running, and Switch hands over from one to the other.                   *)
(***************************************************************************)
\* the objects and fields of the process id, as they are in S
ProcessOf(S, id) ==
    [id |-> id, rec_heap |-> S.rec_heap, meta_heap |-> S.meta_heap,
     list_heap |-> S.list_heap, cache |-> S.cache, cache_loaded |-> S.cache_loaded,
     vectors_cache |-> S.vectors_cache, data_cache |-> S.data_cache]

\* process 1 has run __init__ and runs; process 2 has run __init__ and waits
WritersInit ==
    /\ db \in {"VectorDB", "MultimodalDB"}
    /\ rec_heap = <<>>
    /\ meta_heap = <<>>
    /\ list_heap = <<>>
    /\ cache = None
    /\ cache_loaded = FALSE
    /\ file = <<>>
    /\ file_text = "complete"
    /\ vectors_cache = <<>>
    /\ data_cache = None
    /\ peer = << ProcessOf(EmptyStore, 2) >>
    /\ last = Constructed

Switch ==
    /\ peer # <<>>
    /\ Install([Cur EXCEPT !.rec_heap = peer[1].rec_heap,
                           !.meta_heap = peer[1].meta_heap,
                           !.list_heap = peer[1].list_heap,
                           !.cache = peer[1].cache,
                           !.cache_loaded = peer[1].cache_loaded,
                           !.vectors_cache = peer[1].vectors_cache,
                           !.data_cache = peer[1].data_cache,
                           !.peer = << ProcessOf(Cur, 3 - peer[1].id) >>])
    /\ UNCHANGED <<db, last>>

WritersNext ==
    \/ Switch
    \/ Add(StoreDocuments, {<<FALSE, Pct(85)>>})
    \/ AddImage({ImgAX, ImgBX, ImgAY}, {<<>>}, {TRUE})

WritersSpec == WritersInit /\ [][WritersNext]_vars

\* the collection the waiting process holds in its store cache
PeerMemory == IF peer[1].cache_loaded THEN json_dump(peer[1], peer[1].cache) ELSE <<>>

\* C28: an add through a handle whose store cache is loaded writes the cached
\* collection and the new record, whatever the file held: the records the
\* other handle has added since the cache was loaded are no longer in it.
C28_AddWritesOwnCache ==
    [][peer' = peer /\ last'.op \in {"add", "add_image"} /\ last'.ok /\ cache_loaded
       => SubSeq(file', 1, Len(file') - 1) = Memory]_vars

\* each handle has added a record, with its cache loaded before the other's
\* add: the record the waiting process added, and still holds, is not in the
\* file after the add of the running one
C28_Witness ==
    /\ last.op \in {"add", "add_image"}
    /\ last.ok
    /\ last.pre.loaded
    /\ \E i \in 1..Len(PeerMemory) : PeerMemory[i] \notin Range(file)

(***************************************************************************)
(* The cosine primitives on every pair of vectors, those of norm zero      *)
(* included.  A float is <<"float", x>> with x in units of 1/Scale, or NaN;*)
(* every comparison with NaN is false.                                     *)
(***************************************************************************)
Float(x) == <<"float", x>>
NaN == <<"nan", 0>>

LessThan(a, b) == a[1] = "float" /\ b[1] = "float" /\ a[2] < b[2]
AtLeast(a, b) == a[1] = "float" /\ b[1] = "float" /\ a[2] >= b[2]

ZeroNorm(v1, v2) == SumSq(v1) = 0 \/ SumSq(v2) = 0

\* index.py, called by Index.search with lists of Python floats: the division
\* of a Python float by 0.0 raises
cosine_similarity_of_lists(v1, v2) ==
    IF ZeroNorm(v1, v2) THEN [exc |-> "ZeroDivisionError", ret |-> <<>>]
    ELSE [exc |-> "none", ret |-> << Float(cosine_similarity(v1, v2)) >>]

\* index.py, called by exists_similar with numpy arrays: dot is a numpy scalar
\* unless zip yields nothing, and a numpy scalar divided by 0.0 is nan
cosine_similarity_of_arrays(v1, v2) ==
    IF ZeroNorm(v1, v2) /\ ZipLen(v1, v2) = 0
    THEN [exc |-> "ZeroDivisionError", ret |-> <<>>]
    ELSE IF ZeroNorm(v1, v2) THEN [exc |-> "none", ret |-> << NaN >>]
    ELSE [exc |-> "none", ret |-> << Float(cosine_similarity(v1, v2)) >>]

\* multimodal_db.py: np.dot raises on arrays of two lengths, and 0.0 / 0.0 of
\* numpy scalars is nan
np_cosine_similarity_of(v1, v2) ==
    IF Len(v1) # Len(v2) THEN [exc |-> "ValueError", ret |-> <<>>]
    ELSE IF ZeroNorm(v1, v2) THEN [exc |-> "none", ret |-> << NaN >>]
    ELSE [exc |-> "none", ret |-> << Float(np_cosine_similarity(v1, v2)) >>]

\* the body of the loop of search_by_text and search_by_image for one stored
\* vector: the results after it
score_image(query_embedding, vec, min_score) ==
    With(np_cosine_similarity_of(query_embedding, vec), LAMBDA c :
        IF c.exc # "none" THEN c
        ELSE IF LessThan(c.ret[1], Float(min_score)) THEN [exc |-> "none", ret |-> <<>>]
        ELSE [exc |-> "none", ret |-> << [score |-> c.ret[1]] >>])

\* the body of the loop of exists_similar for one stored vector: the decision
\* returned, or <<>> when the loop goes on
scan_record(vector, v, threshold) ==
    With(cosine_similarity_of_arrays(vector, v), LAMBDA c :
        IF c.exc # "none" THEN c
        ELSE IF AtLeast(c.ret[1], Float(threshold))
        THEN [exc |-> "none", ret |-> << [exists |-> TRUE, score |-> c.ret[1]] >>]
        ELSE [exc |-> "none", ret |-> <<>>])

\* vectors of norm 5, of norm 0, and the empty one
CosineVectors == {<<3, 4>>, <<4, 3>>, <<0, 5>>, <<-3, 4>>, <<0, 0>>, <<>>}

Primitive(impl, v1, v2) ==
    IF impl = "index.py, lists" THEN cosine_similarity_of_lists(v1, v2)
    ELSE IF impl = "index.py, arrays" THEN cosine_similarity_of_arrays(v1, v2)
    ELSE np_cosine_similarity_of(v1, v2)

Observed(op, arg, c) ==
    [Call(op, arg, c.ret, FALSE, <<>>, FALSE, 0) EXCEPT !.exc = c.exc]

Cosine ==
    /\ \E impl \in {"index.py, lists", "index.py, arrays", "multimodal_db.py"},
          v1 \in CosineVectors, v2 \in CosineVectors :
         last' = Observed("cosine_similarity", [impl |-> impl, v1 |-> v1, v2 |-> v2],
                          Primitive(impl, v1, v2))
    /\ UNCHANGED <<db, rec_heap, meta_heap, list_heap, cache, cache_loaded, file,
                   file_text, vectors_cache, data_cache, peer>>

ScoreImage ==
    /\ \E v1 \in CosineVectors, v2 \in CosineVectors, min_score \in {0, Pct(65)} :
         last' = Observed("score_image", [v1 |-> v1, v2 |-> v2, min_score |-> min_score],
                          score_image(v1, v2, min_score))
    /\ UNCHANGED <<db, rec_heap, meta_heap, list_heap, cache, cache_loaded, file,
                   file_text, vectors_cache, data_cache, peer>>

ScanRecord ==
    /\ \E v1 \in CosineVectors, v2 \in CosineVectors, threshold \in DuplicateThresholds :
         last' = Observed("scan_record", [v1 |-> v1, v2 |-> v2, threshold |-> threshold],
                          scan_record(v1, v2, threshold))
    /\ UNCHANGED <<db, rec_heap, meta_heap, list_heap, cache, cache_loaded, file,
                   file_text, vectors_cache, data_cache, peer>>

CosineNext == Cosine \/ ScoreImage \/ ScanRecord

CosineSpec == Init /\ [][CosineNext]_vars

\* C29: on a vector of norm zero each cosine primitive raises or yields 0,
\* and no search result and no decision of the guard has NaN for its score.
C29_ZeroNormGuarded ==
    /\ last.op = "cosine_similarity" /\ ZeroNorm(last.arg.v1, last.arg.v2)
       => last.exc # "none" \/ last.ret = << Float(0) >>
    /\ last.op \in {"score_image", "scan_record"}
       => \A i \in 1..Len(last.ret) : last.ret[i].score # NaN

\* C30: add_image with skip_if_exists looks the path up first: for a path a
\* record is stored for it returns false and the encoder is not called (no
\* similarity is computed by add_image at all); the encoder is called only
\* with a path no record is stored for.
C30_IdentityCheckFirst ==
    [][last'.op = "add_image" /\ last'.arg.skip_if_exists
       => IF RecordsOf(file, last'.arg.image_path) # {}
          THEN last'.ret = FALSE /\ last'.encoded = <<>>
          ELSE last'.encoded = <<last'.arg.image_path>>]_vars

\* add_image of a stored image was rejected without a call of the encoder
C30_Witness ==
    /\ last.op = "add_image"
    /\ last.arg.skip_if_exists
    /\ last.ret = FALSE
    /\ last.encoded = <<>>
    /\ RecordsOf(file, last.arg.image_path) # {}

(***************************************************************************)
(* Searches by image over collections that hold several records for one    *)
(* image: add_image stores a second record when it is called with          *)
(* skip_if_exists false.                                                   *)
(***************************************************************************)
SelfNext ==
    \/ AddImage({ImgAX, ImgAY, ImgBY}, {<<>>}, BOOLEAN)
    \/ SearchByImage({ImgAX, ImgAY, ImgBad}, TopKs, {0, Pct(85)})

SelfSpec == Init /\ [][SelfNext]_vars

\* the positions of the records of the last search by image that are not
\* stored for the query image and score min_score at least
Others ==
    {i \in 1..Len(last.scored[1]) :
        /\ last.scored[1][i].absolute_path # abspath(last.arg.image_path)
        /\ ImageScore(i) >= last.arg.min_score}

\* C31: no result of search_by_image is a record of the query image (the
\* image_path of a result names the absolute path of its record), and the
\* results are taken from all the other records that score min_score at
\* least: as many of them as top_k allows, all of them when top_k allows.
C31_SelfExcluded ==
    last.op = "search_by_image" =>
        /\ \A k \in 1..Len(last.ret) :
               abspath(last.ret[k].image_path) # abspath(last.arg.image_path)
        /\ last.scored # <<>> =>
               /\ Len(last.ret) = IF last.arg.top_k < Cardinality(Others)
                                  THEN last.arg.top_k ELSE Cardinality(Others)
               /\ \A k \in 1..Len(last.ret) :
                      \E i \in Others : ResultOf(last.ret[k], last.scored[1][i])
               /\ Cardinality(Others) <= last.arg.top_k =>
                      \A i \in Others : \E k \in 1..Len(last.ret) :
                          ResultOf(last.ret[k], last.scored[1][i])

\* a search by an image two records are stored for, which returned another
\* record
C31_Witness ==
    /\ last.op = "search_by_image"
    /\ last.scored # <<>>
    /\ Cardinality(RecordsOf(last.scored[1], last.arg.image_path)) = 2
    /\ Len(last.ret) = 1

(***************************************************************************)
(* The result dict Index.search builds for one accepted record, over the   *)
(* cosine scores its caller can hand it.  In floating point the cosine of  *)
(* a vector with itself, dot / (sqrt(dot) * sqrt(dot)), is 1.0 or the next *)
(* float above it; JustAboveOne stands for that float.                     *)
(***************************************************************************)
JustAboveOne == Scale + 1

BaseScores == {Pct(50), Pct(90), Pct(95), Scale, JustAboveOne}

BuildResult ==
    /\ db = "VectorDB"
    /\ \E text \in {TextCat, TextDog, TextCatDog}, score \in BaseScores,
          query_text \in {<<>>} \cup {<<q>> : q \in {TextCat, TextCat2, TextOx}},
          apply_boosting \in BOOLEAN :
         last' = Call("result",
                      [text |-> text, score |-> score, query_text |-> query_text,
                       apply_boosting |-> apply_boosting],
                      TextResult(Cur, [text |-> text, metadata |-> None], score,
                                 query_text, apply_boosting),
                      FALSE, <<>>, FALSE, 0)
    /\ UNCHANGED <<db, rec_heap, meta_heap, list_heap, cache, cache_loaded, file,
                   file_text, vectors_cache, data_cache, peer>>

BoostSpec == Init /\ [][BuildResult]_vars

\* the result res, built for the query text query_text with boosting as
\* apply_boosting says, has both scores, equal when nothing is boosted and
\* score the larger otherwise
BothScores(res, query_text, apply_boosting) ==
    /\ {"score", "original_score"} \subseteq DOMAIN res
    /\ IF \/ ~apply_boosting
          \/ query_text = <<>>
          \/ extract_keywords(query_text[1]) \cap extract_keywords(res.text) = {}
       THEN res.score = res.original_score
       ELSE res.score >= res.original_score

\* C32: every result carries score and original_score; they are equal when
\* apply_boosting is false, when there is no query text and when query and
\* candidate share no keyword, and score is the larger otherwise.
C32_ScoreAndOriginal ==
    last.op = "result" => BothScores(last.ret, last.arg.query_text, last.arg.apply_boosting)

\* the same for the results of the searches of the facade, whose scores are
\* exact in the model and at most 1.0
C32_ExactScores ==
    Scored => \A k \in 1..Len(last.ret) :
                  BothScores(last.ret[k], <<last.arg.query>>, last.arg.apply_boosting)

\* the result at k of the last search is the record at position i
IsRecord(k, i) ==
    /\ last.ret[k].text = last.scored[1][i].text
    /\ last.ret[k].original_score = Scores[i]

\* the positions of the records before i that have the normalized text of the
\* record at i and failed a cutoff of the last search
FailedBefore(i) ==
    {j \in 1..(i - 1) :
        /\ normalize_text(last.scored[1][j].text) = normalize_text(last.scored[1][i].text)
        /\ ~Passed(j)}

\* C33: of the records of one normalized text, the first in the order of the
\* collection that clears the threshold and min_relevance is the one a text
\* search returns, whatever the later ones score and whichever earlier ones
\* failed a cutoff: it is returned unless the cut to top_k removes it, and no
\* other record of that normalized text is returned.
C33_EarliestPassingWins ==
    Scored =>
        /\ \A i \in Accepted :
               Cardinality(Accepted) <= last.arg.top_k
               => \E k \in 1..Len(last.ret) : IsRecord(k, i)
        /\ \A k \in 1..Len(last.ret) :
               /\ PassedAs(last.ret[k].text) # {}
               /\ IsRecord(k, MinOf(PassedAs(last.ret[k].text)))

\* a search returned a record that comes after one of the same normalized text
\* which failed min_relevance, and before none that passed
C33_Witness ==
    /\ Scored
    /\ last.arg.min_relevance > 0
    /\ \E k \in 1..Len(last.ret) :
           \E i \in Accepted : IsRecord(k, i) /\ FailedBefore(i) # {}

====
